---- MODULE Spec2Model ----
(***************************************************************************)
(* easy-bus: the consumer pipeline (Handler.handleMsg over a driver queue, *)
(* an idempotent store and a dead-letter store) and the transactional      *)
(* publisher (Sender.Send with the half-message protocol and its           *)
(* reconciliation handler).                                                *)
(***************************************************************************)
EXTENDS Integers, Sequences, FiniteSets, TLC

(* ------------------------------ bounds -------------------------------- *)
MaxSends == 2      \* Send calls without a localTx per behaviour
MaxTxSends == 1    \* Send calls with a localTx per behaviour
MaxTasks == 2      \* delivery goroutines alive at once
MaxFaults == 1     \* driver / storage errors injected per behaviour
RetryLimit == 1    \* attempts the "bounded" RetryDelay still retries
MaxRetried == 3    \* cap of Message.Retried
MaxPrepares == 2   \* Prepare calls per component, possibly concurrent
MaxRuns == 2       \* Run / RunCtx calls per behaviour, possibly concurrent
MaxWaits == 2      \* Wait calls per behaviour
MaxReplays == 2    \* handleMsg calls made by handleRetry per behaviour
MaxLifeSends == 1  \* Send calls per behaviour while Run, cancel and Wait are exercised
MaxErrors == 2     \* errors a driver sends on errChan per behaviour
MaxErrorCalls == 3 \* handleError calls per component

(* --------------------------- names in use ----------------------------- *)
Topic == "sender.basic"
ConsumerQueue == "handler.basic"
RecordQueue == Topic \o ".tx-record"
\* The queue of a second Handler, subscribed to the same topic.
OtherQueue == "handler"
QueueNames == {ConsumerQueue, RecordQueue, OtherQueue}
Timeout == 1
NoBytes == [json |-> ""]
Garbage == [json |-> "garbage"]
PayloadBytes == [json |-> "payload"]

\* generateSeqId: a fresh id per call, here the n-th.
BizUID(n) == "u" \o ToString(n)
TxId(n) == "t" \o ToString(n)
BizUIDs == {BizUID(n) : n \in 1..MaxSends} \cup {BizUID(n) : n \in 1..MaxTxSends}
TxIds == {TxId(n) : n \in 1..MaxTxSends} \cup {TxId(1), TxId(2)}
\* An id the application chose (MessageWithId); it has the separator of the
\* idempotency key in it.
DottedUID == "basic.u1"
UIDs == BizUIDs \cup TxIds \cup {DottedUID}

(* ------------------------- Message, encode, decode -------------------- *)
Fields == {"b", "p", "r", "k"}

ZeroOf(f) ==
  CASE f = "b" -> ""
    [] f = "p" -> NoBytes
    [] f = "r" -> 0
    [] f = "k" -> ""

\* Strings an application may hold: "J<ff>" has a byte that is no UTF-8,
\* "J<fffd>" has U+FFFD in its place; likewise for route keys.
Strings == {"Jim", "J<ff>", "J<fffd>"}
Keys == {"", "rk", "rk<ff>"}

\* json.Marshal of a string: bytes that are no valid UTF-8 go out as U+FFFD.
Coerce(str) ==
  CASE str = "J<ff>" -> "J<fffd>"
    [] str = "rk<ff>" -> "rk<fffd>"
    [] OTHER -> str

\* json.Marshal of a Message: the tags b, p, r, k, each with omitempty; the
\* payload bytes go out in base64 and come back as they were.
encode(msg) ==
  [f \in {g \in Fields : msg[g] # ZeroOf(g)} |->
     IF f \in {"b", "k"} THEN Coerce(msg[f]) ELSE msg[f]]

\* json.Unmarshal into a Message succeeds on a JSON object only.
IsEnvelope(bts) == DOMAIN bts \subseteq Fields

\* Mutant of decode: the tag k is not read.
decodeWithoutKey(bts) ==
  [f \in Fields |-> IF f \in DOMAIN bts \ {"k"} THEN bts[f] ELSE ZeroOf(f)]

\* json.Unmarshal into a zero Message: absent fields keep their zero value.
decode(bts) == [f \in Fields |-> IF f \in DOMAIN bts THEN bts[f] ELSE ZeroOf(f)]

MessageWithId(id, payload, routeKey) ==
  [b |-> id, p |-> payload, r |-> 0, k |-> routeKey]

\* Message.Scan into a string: the payload is the JSON of that string (for the
\* payloads the bus itself makes, ids and the test's text, the JSON text is
\* written as the string it denotes).
Scan(msg) == msg.p.json

(* ---------------- payloads: Go values and their JSON ------------------ *)
\* The values an application passes as payload: a string; a struct with the
\* exported field Name (str) and an unexported one (n); an interface{} holding
\* an int, a float64, a NaN or nil.
GoValues ==
  [kind : {"string"}, str : Strings, n : {0}]
    \cup [kind : {"struct"}, str : Strings, n : 0..1]
    \cup [kind : {"int", "float64"}, str : {""}, n : 0..1]
    \cup [kind : {"nil", "NaN"}, str : {""}, n : {0}]

\* The static type of the variable holding the value: what Scan is given.
Shape(v) == IF v.kind \in {"string", "struct"} THEN v.kind ELSE "interface"

Quote(str) == "\"" \o Coerce(str) \o "\""

\* json.Marshal of a value: the JSON text (unexported fields are left out).
Marshal(v) ==
  CASE v.kind = "string" -> Quote(v.str)
    [] v.kind = "struct" -> "{\"Name\":" \o Quote(v.str) \o "}"
    [] v.kind \in {"int", "float64"} -> ToString(v.n)
    [] OTHER -> "null"

\* json.Marshal returns an error for a NaN, and encode throws it.
MarshalFails(v) == v.kind = "NaN"

\* What json.Unmarshal yields in a zero value of a shape: strings of valid
\* UTF-8, structs whose unexported fields are zero, and in an interface{}
\* float64 for every number and nil for null.
Canonical(shape) ==
  {v \in GoValues : /\ Shape(v) = shape
                    /\ Coerce(v.str) = v.str
                    /\ v.kind = "struct" => v.n = 0
                    /\ v.kind \notin {"int", "NaN"}}

\* json.Unmarshal of a JSON text into a zero value of a shape.
Unmarshal(text, shape) == CHOOSE v \in Canonical(shape) : Marshal(v) = text

\* encode(payload), as MessageWithId calls it: the payload bytes.
PayloadOf(v) == [json |-> Marshal(v)]

\* Message.Scan into a zero value of a shape.
ScanInto(msg, shape) == Unmarshal(msg.p.json, shape)

(* ------------------------------ state --------------------------------- *)
VARIABLES
  handler,   \* the consumer Handler's configuration fields
  sender,    \* the Sender's TxOptions callbacks and its driver's behaviour
  queues,    \* internalDriver.queues: per queue, the content of msgChan
  tasks,     \* the goroutines ReceiveMessage started, one per message
  idem,      \* internalIdempotent.dataMap (its keys)
  dls,       \* internalDLStorage: index and dataMap
  txs,       \* internalTXStorage: dataMap and the ids generated so far
  send,      \* the frame of the Send call in progress
  returned,  \* the frames of the Send calls that returned (observer)
  biz,       \* BizUIDs whose local transaction committed (what EnsureFunc reads)
  early,     \* tx ids whose record Fetch found the half-message before Send returned,
             \* and those whose EnsureFunc was consulted before localTx returned (observer)
  calls,     \* callback invocations, deliveries and publications (observers)
  sent,      \* Send calls made so far
  faults,    \* errors injected so far
  hfields,   \* the consumer Handler's sync.Once, ready, quit, running and Context
  sfields,   \* the Sender's ready flag and whether it has TxOptions
  ops,       \* lifecycle operations performed so far, by kind (observer)
  hprep,     \* the Handler.Prepare calls: where each one is
  sprep,     \* the Sender.Prepare calls: where each one is
  runs,      \* the Run / RunCtx calls: the frame of each one
  waits,     \* the Wait calls: where each one is
  cancelled, \* the contexts whose CancelFunc was called
  trip,      \* one message on its way through MessageAutoId, encode, decode and Scan
  conf,      \* what the application configured: drivers, Topic, TxOptions, driver errors
  txh,       \* the tx-handlers built by Sender.Prepare, s.txHandler and the Sender.Wait calls
  errs       \* per component of the ErrorFunc variant: its ErrorFunc and what handleError did

lifevars == <<hfields, sfields, ops, hprep, sprep, runs, waits, cancelled>>

vars == <<handler, sender, queues, tasks, idem, dls, txs, send, returned, biz,
          early, calls, sent, faults, lifevars, trip, conf, txh, errs>>

txvars == <<txs, send, returned, biz, early>>

TaskIds == 1..MaxTasks

PrepIds == 1..MaxPrepares
RunIds == 1..MaxRuns
WaitIds == 1..MaxWaits

\* The contexts an application hands to RunCtx (or sets as Handler.Context).
Ctxs == {"ctx1", "ctx2"}

\* The handleMsg call of the ticker goroutine of Run r (handleRetry calls it inline).
RetryTask(r) == MaxTasks + r
RetryTasks == {RetryTask(r) : r \in RunIds}

IdleTask ==
  [pc |-> "idle", h |-> "handler", data |-> NoBytes, delay |-> 0,
   msg |-> decode(NoBytes), key |-> "", allow |-> FALSE, ens |-> FALSE,
   araw |-> FALSE, aerr |-> FALSE, hres |-> FALSE, rdelay |-> 0, done |-> FALSE, txid |-> "", txdata |-> NoBytes]

\* The goroutine "for range ticker.C { h.handleRetry() }" of one Run.
NoWorker == [pc |-> "off", first |-> {}, visited |-> {}, cur |-> 0]

\* The locals of one Run call: errChan, ticker (tick: a tick waits in ticker.C),
\* the context ReceiveMessage was called with, the channel the post is made on,
\* and its two goroutines (worker: the ticker's; drain: the one ranging over errChan).
IdleRun ==
  [pc |-> "idle", ctx |-> "none", errChan |-> "none", ticker |-> "none",
   tick |-> FALSE, quit |-> "nil", worker |-> NoWorker, drain |-> "off"]

LifeOps == {"CreateQueue", "Subscribe", "CreateTopic", "txHandler", "quit", "throw",
            "sendThrow", "errDrain", "ticker", "ReceiveMessage", "post", "replay",
            "errChan", "initDriver", "Errorf", "crash", "otherHandler"}

\* The operations no serving component has performed yet.
NotYet == {"throw", "sendThrow", "post", "replay", "errChan", "initDriver", "Errorf", "crash",
           "otherHandler"}

\* The context an application puts in TxOptions.Context.
TxContext == "txctx"

\* A tx-handler: its quit channel and where the goroutine of its RunCtx is.
NoTxHandler == [quit |-> "nil", pc |-> "none"]

\* A Sender.Wait call: where it is and the tx-handler whose quit it reads.
IdleWait == [pc |-> "idle", on |-> 0]

\* No tx-handler was built (s.txHandler is nil, cur = 0) and no Wait called.
NoTxHandlers ==
  [cur |-> 0, h |-> [p \in PrepIds |-> NoTxHandler], waits |-> [w \in WaitIds |-> IdleWait]]

\* The first Prepare built the tx-handler and its RunCtx is in the receive loop.
TxServing ==
  [NoTxHandlers EXCEPT !.cur = 1, !.h[1] = [quit |-> "made", pc |-> "receive"]]

\* Both components after Prepare, the Handler in the receive loop of its Run:
\* the state in which messages flow; tx: the Sender has TxOptions, and so a
\* tx-handler; other: a second Handler, on OtherQueue, is prepared and running too.
ServingOf(tx, other) ==
  /\ hfields = [once |-> "done", ready |-> TRUE, quit |-> "made", running |-> 1,
                Context |-> "ctx1"]
  /\ sfields = [ready |-> TRUE, tx |-> tx]
  /\ txh = IF tx THEN TxServing ELSE NoTxHandlers
  /\ ops = [o \in LifeOps |->
              CASE o = "txHandler" -> IF tx THEN 1 ELSE 0
                [] o = "otherHandler" -> IF other THEN 1 ELSE 0
                [] OTHER -> IF o \in NotYet THEN 0 ELSE 1]
  /\ hprep = [p \in PrepIds |-> IF p = 1 THEN "returned" ELSE "idle"]
  /\ sprep = [p \in PrepIds |-> IF p = 1 THEN "returned" ELSE "idle"]
  /\ runs = [r \in RunIds |->
               IF r = 1 THEN [IdleRun EXCEPT !.pc = "receive",
                                             !.ctx = "ctx1", !.errChan = "open",
                                             !.ticker = "on", !.worker.pc = "idle",
                                             !.drain = "idle"]
               ELSE IdleRun]
  /\ waits = [w \in WaitIds |-> "idle"]
  /\ cancelled = {}

ServingAs(tx) == ServingOf(tx, FALSE)

Serving == ServingAs(TRUE)

\* internalDriver.Subscribe has bound the consumer queue to the topic.
Subscribed == ops["Subscribe"] > 0

\* ReceiveMessage is in its loop on the queue of this handler.
Receiving(h) ==
  CASE h = "handler" -> \E r \in RunIds : runs[r].pc = "receive"
    [] h = "other" -> ops["otherHandler"] > 0
    [] OTHER -> \E p \in PrepIds : txh.h[p].pc = "receive"

\* The frame of a Send call: the message (b, k), the localTx argument, the
\* calls made so far and the result.
IdleSend == [pc |-> "idle", b |-> "", k |-> "", localTx |-> "none", id |-> "", data |-> NoBytes,
             ops |-> << >>, result |-> "none"]

\* An operation that may fail: TRUE is an error, while the budget lasts.
Errs == IF faults < MaxFaults /\ sender.SendToTopic = "flaky" THEN {FALSE, TRUE} ELSE {FALSE}

\* Driver.SendToTopic: a driver whose SendToTopic is mocked to fail always fails.
TopicErrs == IF sender.SendToTopic = "error" THEN {TRUE} ELSE Errs

Fault(err) == IF err /\ sender.SendToTopic = "flaky" THEN faults + 1 ELSE faults

Bump(c, b) == [calls EXCEPT ![c][b] = @ + 1]

(* ------------------------- callbacks of a Handler --------------------- *)
EnsureFuncs == {"deny", "allow"}
HandleFuncs == {"ok", "fail", "any"}
RetryDelays == {"none", "bounded"}
Idempotents == {"null", "internal"}

\* Mutant of EnsureResult: every EnsureFunc, the default one too, allows.
EnsureResultTrue(f) == TRUE

\* Handler.EnsureFunc: "deny" is the default of Prepare.
EnsureResult(f) == f = "allow"

\* Handler.EnsureFunc: the results one invocation may have ("any": it decides
\* per message, as one that consults the business data does).
EnsureResults(f) == IF f = "any" THEN BOOLEAN ELSE {EnsureResult(f)}

\* Handler.HandleFunc: the results one invocation may have.
HandleResults(f) ==
  CASE f = "ok" -> {TRUE}
    [] f = "fail" -> {FALSE}
    [] f = "any" -> BOOLEAN
    [] f = "panic" -> {FALSE}

\* A HandleFunc that refuses ("failfirst") or panics ("panicfirst") the first
\* time it is called for a message and accepts the message from then on.
FirstCalls == {"failfirst", "panicfirst"}

\* The results one invocation of HandleFunc may have for the message of id b.
HandleResultsFor(f, b) ==
  IF f \in FirstCalls THEN {calls["handle"][b] > 0} ELSE HandleResults(f)

\* HandleFunc panics instead of returning.
HandlePanics(f, b) ==
  f = "panic" \/ (f = "panicfirst" /\ calls["handle"][b] = 0)

\* Mutant of RetryDelayOf: the facade's RetryDelay counts from 2.
RetryDelayTwice(f, attempts) == 2 - attempts

RetryDelayNegative(f, attempts) == 0 - 1

\* Handler.RetryDelay ("none" is the default of Prepare; "panic" does not return)
\* and TxOptions.RetryDelay ("default" is the default of TxOptions.prepare, in seconds).
RetryDelayOf(f, attempts) ==
  CASE f = "none" -> -1
    [] f = "bounded" -> IF attempts <= RetryLimit THEN 1 ELSE -1
    [] f = "zero" -> 0
    [] f = "default" -> IF attempts > 5 THEN 60 ELSE attempts * 10
    [] f = "once" -> 1 - attempts
    [] f = "panic" -> -1

\* Mutant of TxHandler: EnsureFunc is left to the default of Handler.Prepare.
TxHandlerDefaultEnsure ==
  [Queue |-> RecordQueue, Idempotent |-> "null", DLStorage |-> "null",
   EnsureFunc |-> "deny", HandleFunc |-> "tx", RetryDelay |-> sender.RetryDelay]

\* The Handler that Sender.Prepare builds on the record queue.
TxHandler ==
  [Queue |-> RecordQueue, Idempotent |-> "null", DLStorage |-> "null",
   EnsureFunc |-> "allow", HandleFunc |-> "tx", RetryDelay |-> sender.RetryDelay]

\* The fields of a Handler: the consumer, a second one with the same stores
\* and callbacks on OtherQueue, or the tx-handler.
H(h) ==
  CASE h = "handler" -> handler
    [] h = "other" -> [handler EXCEPT !.Queue = OtherQueue]
    [] OTHER -> TxHandler

(* --------------------------- idempotent stores ------------------------ *)
\* Mutant of Acquire: the in-memory store grants a key it already holds.
AcquireNoCheck(kind, key) ==
  IF kind = "null" THEN <<FALSE, idem>> ELSE <<TRUE, idem \cup {key}>>

\* Acquire of nullIdempotent and of internalIdempotent: <<allow, dataMap'>>.
Acquire(kind, key) ==
  IF kind = "null" THEN <<FALSE, idem>>
  ELSE IF key \in idem THEN <<FALSE, idem>>
  ELSE <<TRUE, idem \cup {key}>>

\* Mutant of Release: the key stays.
ReleaseNot(kind, key) == idem

\* Release of nullIdempotent and of internalIdempotent: dataMap'.
Release(kind, key) == IF kind = "null" THEN idem ELSE idem \ {key}

\* Acquire of a store that may fail ("erring": one behind a network): TRUE is
\* an error, returned along with the answer it would have given.
AcquireErrs(kind) == IF kind = "erring" THEN BOOLEAN ELSE {FALSE}

(* --------------------------- dead-letter store ------------------------ *)
DLStorages == {"internal", "failing"}

\* internalDLStorage.Fetch: the rows of a queue (none for an unknown queue).
DLFetch(store, queue) ==
  IF queue \in DOMAIN store.dataMap THEN store.dataMap[queue] ELSE << >>

\* internalDLStorage.Store: the new id is the row count of the queue;
\* nullDLStorage.Store keeps nothing.
DLStore(kind, store, queue, data) ==
  LET pid == Cardinality(DOMAIN DLFetch(store, queue))
  IN  IF kind = "null" THEN store
      ELSE [index |-> (pid :> queue) @@ store.index,
            dataMap |-> (queue :> ((pid :> data) @@ DLFetch(store, queue))) @@ store.dataMap]

\* DLStorage.Store may return an error only for a store other than the
\* in-memory ones, whose Store always returns nil.
StoreErrs(kind) == IF kind = "failing" THEN Errs ELSE {FALSE}

\* internalDLStorage.Remove: the row leaves the queue its id is indexed under
\* (the index entry stays); nullDLStorage.Remove does nothing.
DLRemove(kind, store, pid) ==
  IF kind = "null" \/ pid \notin DOMAIN store.index THEN store
  ELSE LET queue == store.index[pid]
           rows == DLFetch(store, queue)
       IN  [store EXCEPT !.dataMap =
              (queue :> [i \in DOMAIN rows \ {pid} |-> rows[i]]) @@ store.dataMap]

(* -------------------------- transaction store ------------------------- *)
\* internalTXStorage.Store: <<id, store'>>.
TxStore(store, data) ==
  LET id == TxId(store.seq + 1)
  IN  <<id, [seq |-> store.seq + 1, dataMap |-> (id :> data) @@ store.dataMap]>>

\* internalTXStorage.Fetch: nil (here: absent) for an unknown id.
TxHas(store, id) == id \in DOMAIN store.dataMap

TxRemoveNot(store, id) == store

\* internalTXStorage.Remove
TxRemove(store, id) ==
  [store EXCEPT !.dataMap = [i \in DOMAIN store.dataMap \ {id} |-> store.dataMap[i]]]

(* ------------------------------- driver ------------------------------- *)
\* internalDriver.SendToQueue
SendToQueue(qs, queue, content, delay) ==
  [qs EXCEPT ![queue] = Append(@, [data |-> content, delay |-> delay])]

\* internalDriver.SendToTopic: every queue subscribed with the route key gets
\* the content; the Handlers subscribe with route key "".
SendToTopic(qs, content, routeKey) ==
  LET first == IF routeKey = "" /\ Subscribed
               THEN SendToQueue(qs, ConsumerQueue, content, 0) ELSE qs
  IN  IF routeKey = "" /\ ops["otherHandler"] > 0
      THEN SendToQueue(first, OtherQueue, content, 0) ELSE first

(* ------------------------------ Init ---------------------------------- *)
NoTx == [EnsureFunc |-> "business", RetryDelay |-> "default",
         SendToTopic |-> "flaky", LocalTx |-> "any"]

\* No message is on the way through encode and decode.
NoTrip ==
  [pc |-> "none", P |-> [kind |-> "nil", str |-> "", n |-> 0], k |-> "",
   m |-> decode(NoBytes), wire |-> NoBytes, m2 |-> decode(NoBytes),
   dest |-> [kind |-> "nil", str |-> "", n |-> 0]]

\* A complete configuration over a driver whose declarations succeed: both
\* components have a Driver, the Sender a Topic, and TxOptions have a positive
\* Timeout, an EnsureFunc and a TxStorage. RouteKey is the route key the
\* application gives the messages it sends with a local transaction; failing
\* holds the operations of the driver and of the TxStorage that return errors.
ValidConf ==
  [hDriver |-> "set", sDriver |-> "set", Topic |-> Topic, Timeout |-> Timeout,
   TxEnsureFunc |-> "set", TxStorage |-> "set", RouteKey |-> "", failing |-> {}]

\* The components that have an ErrorFunc field and a handleError method.
Components == {"Sender", "Handler"}

\* The error values handleError is called with; NilError is Go's nil.
NilError == "nil"
Errors == {NilError, "error", "log println error"}

\* A component as its zero value has it: no ErrorFunc. got holds the errors
\* ErrorFunc was called with, logged those log.Printf wrote, hist the
\* handleError calls made, each with the ErrorFunc of that moment (observer).
NoErrs == [ErrorFunc |-> "nil", got |-> << >>, logged |-> << >>, hist |-> << >>]

\* Nothing sent, received or stored yet.
InitData ==
  /\ queues = [q \in QueueNames |-> << >>]
  /\ tasks = [t \in TaskIds \cup RetryTasks |-> IdleTask]
  /\ idem = {}
  /\ dls = [index |-> << >>, dataMap |-> << >>]
  /\ txs = [seq |-> 0, dataMap |-> << >>]
  /\ send = IdleSend
  /\ returned = << >>
  /\ biz = {}
  /\ early = [fetch |-> {}, ensure |-> {}]
  /\ calls = [c \in {"handle", "ensure", "deliver", "ack", "topic", "publish", "republish", "txensure", "txdenied", "handled"}
                |-> [b \in UIDs |-> 0]]
  /\ sent = 0
  /\ faults = 0
  /\ errs = [c \in Components |-> NoErrs]

InitRest == InitData /\ Serving /\ trip = NoTrip /\ conf = ValidConf

Init ==
  /\ handler \in [Queue : {ConsumerQueue}, Idempotent : Idempotents,
                  DLStorage : DLStorages, EnsureFunc : EnsureFuncs,
                  HandleFunc : HandleFuncs, RetryDelay : RetryDelays]
  /\ sender = NoTx
  /\ InitRest

(* --------------------------- Sender.Send ------------------------------ *)
\* Send without a local transaction: SendToTopic of the encoded message. The
\* message is one sent before or a new one (the ids of MessageAutoId are
\* interchangeable: the n-th Send takes one of the first n).
Send(b) ==
  /\ sfields.ready
  /\ sent < MaxSends
  /\ sent' = sent + 1
  /\ queues' = SendToTopic(queues, encode(MessageWithId(b, PayloadBytes, "")), "")
  /\ UNCHANGED <<errs, txh, conf, trip, lifevars, handler, sender, tasks, idem, dls, calls, faults, txvars>>

(* ------------------- internalDriver.ReceiveMessage -------------------- *)
FreeTask == CHOOSE t \in TaskIds :
              /\ tasks[t].pc = "idle"
              /\ \A u \in TaskIds : tasks[u].pc = "idle" => t <= u

\* A message leaves msgChan and gets a goroutine that will call the handler.
ReceiveMessage(h) ==
  /\ Receiving(h)
  /\ queues[H(h).Queue] # << >>
  /\ \E t \in TaskIds : tasks[t].pc = "idle"
  /\ LET m == Head(queues[H(h).Queue])
     IN  tasks' = [tasks EXCEPT ![FreeTask] =
                     [IdleTask EXCEPT !.pc = "gate", !.h = h, !.data = m.data,
                                      !.delay = m.delay]]
  /\ queues' = [queues EXCEPT ![H(h).Queue] = Tail(@)]
  /\ UNCHANGED <<errs, txh, conf, trip, lifevars, handler, sender, idem, dls, calls, sent, faults, txvars>>

(* -------------------------- Handler.handleMsg ------------------------- *)
\* Mutant of DeadLetterData: the envelope with Retried already incremented.
DeadLetterDataBumped(task) == encode(task.msg)

\* The bytes handed to DLStorage.Store: data, as received.
DeadLetterData(task) == task.data

\* Mutant of RequeueData: the received bytes, Retried not incremented.
RequeueDataStale(task) == task.data

\* The bytes handed to Driver.SendToQueue: encode(msg), after msg.Retried += 1.
RequeueData(task) == encode(task.msg)

\* Mutant of StoreDone: a failed store is acknowledged all the same.
StoreDoneAlways(err) == TRUE

\* The result of handleMsg on the failure path: false iff the store or the send failed.
StoreDone(err) == ~err

\* Mutant of Allowed: the answer of Acquire is taken whatever its error.
AllowedDespiteErr(raw, err) == raw

\* allow, err := Acquire(key); if err != nil { allow = false }
Allowed(raw, err) == raw /\ ~err

\* decode, the key, Idempotent.Acquire (an error counts as a refusal) and,
\* when refused, EnsureFunc; a decode failure or a panic of EnsureFunc leaves
\* the body for the deferred handler.
handleMsgGate(t) ==
  /\ tasks[t].pc = "gate"
  /\ IF ~IsEnvelope(tasks[t].data)
     THEN /\ tasks' = [tasks EXCEPT ![t].pc = "panic"]
          /\ UNCHANGED <<idem, calls>>
     ELSE LET hd == H(tasks[t].h)
              msg == decode(tasks[t].data)
              key == hd.Queue \o "." \o msg.b
              acq == Acquire(hd.Idempotent, key)
          IN  \E aerr \in AcquireErrs(hd.Idempotent) :
              \E ens \in (IF Allowed(acq[1], aerr) THEN {FALSE}
                          ELSE IF hd.EnsureFunc = "panic" THEN {FALSE}
                          ELSE EnsureResults(hd.EnsureFunc)) :
                LET allow == Allowed(acq[1], aerr)
                    panics == ~allow /\ hd.EnsureFunc = "panic"
                IN  /\ idem' = IF aerr THEN idem ELSE acq[2]
                    /\ tasks' = [tasks EXCEPT ![t] =
                         [@ EXCEPT !.msg = msg, !.key = key, !.allow = allow, !.ens = ens,
                                   !.araw = acq[1], !.aerr = aerr,
                                   !.pc = IF panics THEN "panic"
                                          ELSE IF ~allow /\ ~ens THEN "done" ELSE "handle",
                                   !.done = ~panics /\ ~allow /\ ~ens]]
                    /\ calls' = [calls EXCEPT !["deliver"][msg.b] = @ + 1,
                                              !["ensure"][msg.b] = IF allow THEN @ ELSE @ + 1]
  /\ UNCHANGED <<errs, txh, conf, trip, lifevars, handler, sender, queues, dls, sent, faults, txvars>>

\* HandleFunc(&msg) of a consumer; true is success.
handleMsgHandle(t) ==
  /\ tasks[t].pc = "handle"
  /\ H(tasks[t].h).HandleFunc # "tx"
  /\ \E r \in HandleResultsFor(H(tasks[t].h).HandleFunc, tasks[t].msg.b) :
       /\ tasks' = [tasks EXCEPT ![t] =
                      [@ EXCEPT !.hres = r, !.done = r,
                                !.pc = IF HandlePanics(H(tasks[t].h).HandleFunc, tasks[t].msg.b)
                                       THEN "panic"
                                       ELSE IF r THEN "done" ELSE "release"]]
       /\ calls' = [calls EXCEPT !["handle"][tasks[t].msg.b] = @ + 1,
                                 !["handled"][tasks[t].msg.b] = IF r THEN @ + 1 ELSE @]
  /\ UNCHANGED <<errs, txh, conf, trip, lifevars, handler, sender, queues, idem, dls, sent, faults, txvars>>

\* Idempotent.Release, msg.Retried += 1 and RetryDelay(msg.Retried).
handleMsgRelease(t) ==
  /\ tasks[t].pc = "release"
  /\ tasks[t].msg.r < MaxRetried
  /\ idem' = Release(H(tasks[t].h).Idempotent, tasks[t].key)
  /\ LET d == RetryDelayOf(H(tasks[t].h).RetryDelay, tasks[t].msg.r + 1)
     IN  tasks' = [tasks EXCEPT ![t] =
                     [@ EXCEPT !.msg.r = @ + 1, !.rdelay = d,
                               !.pc = IF H(tasks[t].h).RetryDelay = "panic" THEN "panic"
                                      ELSE IF d < 0 THEN "dl" ELSE "requeue"]]
  /\ UNCHANGED <<errs, txh, conf, trip, lifevars, handler, sender, queues, dls, calls, sent, faults, txvars>>

\* delay < 0: DLStorage.Store(h.Queue, data); its failure returns false.
handleMsgDeadLetter(t) ==
  /\ tasks[t].pc = "dl"
  /\ \E err \in StoreErrs(H(tasks[t].h).DLStorage) :
       /\ dls' = IF err THEN dls
                 ELSE DLStore(H(tasks[t].h).DLStorage, dls, H(tasks[t].h).Queue,
                              DeadLetterData(tasks[t]))
       /\ faults' = Fault(err)
       /\ tasks' = [tasks EXCEPT ![t] = [@ EXCEPT !.pc = "done", !.done = StoreDone(err)]]
  /\ UNCHANGED <<errs, txh, conf, trip, lifevars, handler, sender, queues, idem, calls, sent, txvars>>

\* delay >= 0: Driver.SendToQueue(h.Queue, encode(msg), delay); its failure returns false.
handleMsgRequeue(t) ==
  /\ tasks[t].pc = "requeue"
  /\ \E err \in Errs :
       /\ queues' = IF err THEN queues
                    ELSE SendToQueue(queues, H(tasks[t].h).Queue, RequeueData(tasks[t]),
                                     tasks[t].rdelay)
       /\ faults' = Fault(err)
       /\ tasks' = [tasks EXCEPT ![t] = [@ EXCEPT !.pc = "done", !.done = StoreDone(err)]]
  /\ UNCHANGED <<errs, txh, conf, trip, lifevars, handler, sender, idem, dls, calls, sent, txvars>>

\* Mutant of PanicData: what the handler made of the bytes.
PanicDataDecoded(task) == encode(task.msg)

\* The bytes the deferred handler stores: data, as received.
PanicData(task) == task.data

\* A panic in the body: handlePanic recovers it and the deferred function sets
\* done = DLStorage.Store(h.Queue, data) == nil, then logs.
handleMsgPanic(t) ==
  /\ tasks[t].pc = "panic"
  /\ \E err \in StoreErrs(H(tasks[t].h).DLStorage) :
       /\ dls' = IF err THEN dls
                 ELSE DLStore(H(tasks[t].h).DLStorage, dls, H(tasks[t].h).Queue,
                              PanicData(tasks[t]))
       /\ faults' = Fault(err)
       /\ tasks' = [tasks EXCEPT ![t] = [@ EXCEPT !.pc = "done", !.done = ~err]]
  /\ UNCHANGED <<errs, txh, conf, trip, lifevars, handler, sender, queues, idem, calls, sent, txvars>>

\* A producer outside the bus puts bytes that are no message into the queue.
SendToQueueGarbage ==
  /\ sent < MaxSends
  /\ sent' = sent + 1
  /\ queues' = SendToQueue(queues, handler.Queue, Garbage, 0)
  /\ UNCHANGED <<errs, txh, conf, trip, lifevars, handler, sender, tasks, idem, dls, calls, faults, txvars>>

\* The goroutine of ReceiveMessage after handler(msg.data) returned: a false
\* result sends the received bytes back to the queue with the received delay.
Delivered(t) ==
  /\ tasks[t].pc = "done"
  /\ queues' = IF tasks[t].done THEN queues
               ELSE SendToQueue(queues, H(tasks[t].h).Queue, tasks[t].data, tasks[t].delay)
  /\ calls' = IF tasks[t].done /\ IsEnvelope(tasks[t].data)
              THEN Bump("ack", decode(tasks[t].data).b) ELSE calls
  /\ tasks' = [tasks EXCEPT ![t] = IdleTask]
  /\ UNCHANGED <<errs, txh, conf, trip, lifevars, handler, sender, idem, dls, sent, faults, txvars>>

Next ==
  \/ \E n \in 1..(sent + 1) : Send(BizUID(n))
  \/ ReceiveMessage("handler")
  \/ \E t \in TaskIds : handleMsgGate(t)
  \/ \E t \in TaskIds : handleMsgHandle(t)
  \/ \E t \in TaskIds : handleMsgRelease(t)
  \/ \E t \in TaskIds : handleMsgDeadLetter(t)
  \/ \E t \in TaskIds : handleMsgRequeue(t)
  \/ \E t \in TaskIds : Delivered(t)

Spec == Init /\ [][Next]_vars

(* ====================== the transactional Sender ====================== *)
\* bus_test.go TestTransaction: EnsureFunc returns true on its first two calls,
\* and Send is called twice.
ScriptedTrue == 2
ScriptedSends == 2

RECURSIVE SumOver(_, _)
SumOver(f, S) ==
  IF S = {} THEN 0
  ELSE LET x == CHOOSE y \in S : TRUE IN f[x] + SumOver(f, S \ {x})

TxEnsureAlways(kind, msg) == TRUE

TxEnsureNever(kind, msg) == FALSE

\* TxOptions.EnsureFunc: "business" reports whether the local transaction of
\* the message committed; "scripted" is the one of TestTransaction.
TxEnsureResult(kind, msg) ==
  IF kind = "business" THEN msg.b \in biz
  ELSE SumOver(calls.txensure, UIDs) + 1 <= ScriptedTrue

\* localTx: nil (TRUE) or an error; TestTransaction aborts its first Send
\* and commits its second.
LocalTxResults == IF sender.LocalTx = "any" THEN BOOLEAN ELSE {sent >= 2}

\* The message of the Send in turn: a fresh MessageAutoId, or (TestTransaction)
\* the same originMsg every time.
SendBiz == IF sender.LocalTx = "any" THEN BizUID(sent + 1) ELSE BizUID(1)

\* The number of Send calls the application makes.
SendLimit == IF sender.LocalTx = "any" THEN MaxTxSends ELSE ScriptedSends

Return(frame, result) == Append(returned, [frame EXCEPT !.pc = "idle", !.result = result])

RecordOfPayload(id) == encode(MessageWithId(id, PayloadBytes, ""))

\* The record of a half-message: encode(MessageWithId(id, id, "")).
RecordOf(id) == encode(MessageWithId(id, [json |-> id], ""))

\* Send with a localTx: data := encode(msg); id, err := TxStorage.Store(data).
SendStore ==
  /\ sfields.ready
  /\ sfields.tx
  /\ send.pc = "idle"
  /\ sent < SendLimit
  /\ sent' = sent + 1
  /\ \E err \in Errs :
       LET data == encode(MessageWithId(SendBiz, PayloadBytes, conf.RouteKey))
           st == TxStore(txs, data)
           frame == [IdleSend EXCEPT !.b = SendBiz, !.k = conf.RouteKey,
                                     !.localTx = "func", !.data = data,
                                     !.ops = <<"Store">>]
       IN  /\ faults' = Fault(err)
           /\ txs' = IF err THEN txs ELSE st[2]
           /\ send' = IF err THEN IdleSend ELSE [frame EXCEPT !.pc = "record", !.id = st[1]]
           /\ returned' = IF err THEN Return(frame, "errStore") ELSE returned
  /\ UNCHANGED <<errs, txh, conf, trip, lifevars, handler, sender, queues, tasks, idem, dls, biz, early, calls>>

\* Driver.SendToQueue(recordQueue, record, Timeout); an error is returned as it is.
SendRecord ==
  /\ send.pc = "record"
  /\ \E err \in Errs :
       LET frame == [send EXCEPT !.ops = Append(@, "SendToQueue")]
       IN  /\ faults' = Fault(err)
           /\ queues' = IF err THEN queues
                        ELSE SendToQueue(queues, RecordQueue, RecordOf(send.id), Timeout)
           /\ send' = IF err THEN IdleSend ELSE [frame EXCEPT !.pc = "localTx"]
           /\ returned' = IF err THEN Return(frame, "errRecord") ELSE returned
  /\ UNCHANGED <<errs, txh, conf, trip, lifevars, handler, sender, tasks, idem, dls, txs, biz, early, calls, sent>>

\* localTx[0](): nil (the local transaction committed) or an error.
SendLocalTx ==
  /\ send.pc = "localTx"
  /\ \E ok \in LocalTxResults :
       /\ biz' = IF ok THEN biz \cup {send.b} ELSE biz
       /\ send' = [send EXCEPT !.ops = Append(@, "localTx"),
                               !.pc = IF ok THEN "publish" ELSE "abort"]
  /\ UNCHANGED <<errs, txh, conf, trip, lifevars, handler, sender, queues, tasks, idem, dls, txs, returned, early, calls,
                 sent, faults>>

\* localTx failed: txRemove(id); return err.
SendAbort ==
  /\ send.pc = "abort"
  /\ txs' = TxRemove(txs, send.id)
  /\ returned' = Return([send EXCEPT !.ops = Append(@, "Remove")], "errLocalTx")
  /\ send' = IdleSend
  /\ UNCHANGED <<errs, txh, conf, trip, lifevars, handler, sender, queues, tasks, idem, dls, biz, early, calls, sent, faults>>

\* Driver.SendToTopic(topic, data, RouteKey): an error is logged and Send returns nil.
SendPublish ==
  /\ send.pc = "publish"
  /\ \E err \in TopicErrs :
       LET frame == [send EXCEPT !.ops = Append(@, "SendToTopic")]
       IN  /\ faults' = Fault(err)
           /\ queues' = IF err THEN queues ELSE SendToTopic(queues, send.data, send.k)
           /\ calls' = IF err THEN Bump("topic", send.b)
                       ELSE [calls EXCEPT !.topic[send.b] = @ + 1, !.publish[send.b] = @ + 1]
           /\ send' = IF err THEN IdleSend ELSE [frame EXCEPT !.pc = "remove"]
           /\ returned' = IF err THEN Return(frame, "nilUnpublished") ELSE returned
  /\ UNCHANGED <<errs, txh, conf, trip, lifevars, handler, sender, tasks, idem, dls, txs, biz, early, sent>>

\* The publish succeeded: txRemove(id); return nil.
SendRemove ==
  /\ send.pc = "remove"
  /\ txs' = TxRemove(txs, send.id)
  /\ returned' = Return([send EXCEPT !.ops = Append(@, "Remove")], "nil")
  /\ send' = IdleSend
  /\ UNCHANGED <<errs, txh, conf, trip, lifevars, handler, sender, queues, tasks, idem, dls, biz, early, calls, sent, faults>>

(* ------------- the HandleFunc of the reconciliation handler ----------- *)
\* TxStorage.Fetch of a store that may fail: TRUE is an error, while the budget lasts.
FetchErrs == IF "Fetch" \in conf.failing /\ faults < MaxFaults THEN {FALSE, TRUE} ELSE {FALSE}

\* log.Scan(&id); TxStorage.Fetch(id); an error: false; no data: txRemove(id) and true.
txFetch(t) ==
  /\ tasks[t].pc = "handle"
  /\ H(tasks[t].h).HandleFunc = "tx"
  /\ \E err \in FetchErrs :
       LET id == Scan(tasks[t].msg)
           has == TxHas(txs, id)
       IN  /\ faults' = IF err THEN faults + 1 ELSE faults
           /\ txs' = IF err \/ has THEN txs ELSE TxRemove(txs, id)
           /\ tasks' = [tasks EXCEPT ![t] =
                          [@ EXCEPT !.txid = id,
                                    !.txdata = IF has /\ ~err THEN txs.dataMap[id] ELSE NoBytes,
                                    !.hres = ~err /\ ~has, !.done = ~err /\ ~has,
                                    !.pc = IF err THEN "release"
                                           ELSE IF has THEN "txensure" ELSE "done"]]
           /\ early' = IF ~err /\ send.pc # "idle" /\ send.id = id /\ TxHas(txs, send.id)
                       THEN [early EXCEPT !.fetch = @ \cup {send.id}] ELSE early
  /\ calls' = Bump("handle", tasks[t].msg.b)
  /\ UNCHANGED <<errs, txh, conf, trip, lifevars, handler, sender, queues, idem, dls, send, returned, biz, sent>>

\* decode(data, &msg); TxOptions.EnsureFunc(&msg); false: txRemove(id) and true.
txEnsure(t) ==
  /\ tasks[t].pc = "txensure"
  /\ LET msg == decode(tasks[t].txdata)
         ok == TxEnsureResult(sender.EnsureFunc, msg)
     IN  /\ txs' = IF ok THEN txs ELSE TxRemove(txs, tasks[t].txid)
         /\ tasks' = [tasks EXCEPT ![t] =
                        [@ EXCEPT !.hres = ~ok, !.done = ~ok,
                                  !.pc = IF ok THEN "txpublish" ELSE "done"]]
         /\ calls' = [calls EXCEPT !.txensure[tasks[t].txid] = @ + 1,
                                    !.txdenied[tasks[t].txid] = IF ok THEN @ ELSE @ + 1]
  /\ early' = IF send.pc = "localTx" /\ send.id = tasks[t].txid
              THEN [early EXCEPT !.ensure = @ \cup {tasks[t].txid}] ELSE early
  /\ UNCHANGED <<errs, txh, conf, trip, lifevars, handler, sender, queues, idem, dls, send, returned, biz, sent, faults>>

\* Mutant of PublishKey: the record is published without a route key.
PublishKeyNone(msg) == ""

\* The route key of the reconciliation's publish: msg.RouteKey of the decoded bytes.
PublishKey(msg) == msg.k

\* Driver.SendToTopic(topic, data, msg.RouteKey); an error returns false.
txPublish(t) ==
  /\ tasks[t].pc = "txpublish"
  /\ \E err \in TopicErrs :
       LET msg == decode(tasks[t].txdata)
       IN  /\ faults' = Fault(err)
           /\ queues' = IF err THEN queues
                        ELSE SendToTopic(queues, tasks[t].txdata, PublishKey(msg))
           /\ calls' = IF err THEN Bump("topic", msg.b)
                       ELSE [calls EXCEPT !.topic[msg.b] = @ + 1, !.republish[msg.b] = @ + 1]
           /\ tasks' = [tasks EXCEPT ![t] =
                          [@ EXCEPT !.pc = IF err THEN "release" ELSE "txremove"]]
  /\ UNCHANGED <<errs, txh, conf, trip, lifevars, handler, sender, idem, dls, sent, txvars>>

\* The publish succeeded: txRemove(id) and true.
txRemoveDone(t) ==
  /\ tasks[t].pc = "txremove"
  /\ txs' = TxRemove(txs, tasks[t].txid)
  /\ tasks' = [tasks EXCEPT ![t] = [@ EXCEPT !.hres = TRUE, !.done = TRUE, !.pc = "done"]]
  /\ UNCHANGED <<errs, txh, conf, trip, lifevars, handler, sender, queues, idem, dls, send, returned, biz, early, calls,
                 sent, faults>>

\* TestTransaction's consumer: no Idempotent, no DLStorage, EnsureFunc true.
TxConsumer ==
  [Queue |-> ConsumerQueue, Idempotent |-> "null", DLStorage |-> "null",
   EnsureFunc |-> "allow", HandleFunc |-> "ok", RetryDelay |-> "none"]

\* The Senders under check: the defaults of TxOptions.prepare over a driver that
\* may fail; TestTransaction; the facade's RetryDelay over a failing topic.
TxSenders ==
  { NoTx,
    [EnsureFunc |-> "scripted", RetryDelay |-> "zero", SendToTopic |-> "error",
     LocalTx |-> "abortThenCommit"],
    [EnsureFunc |-> "business", RetryDelay |-> "once", SendToTopic |-> "error",
     LocalTx |-> "any"] }

InitTx ==
  /\ handler = TxConsumer
  /\ sender \in TxSenders
  /\ InitRest

NextTx ==
  \/ SendStore
  \/ SendRecord
  \/ SendLocalTx
  \/ SendAbort
  \/ SendPublish
  \/ SendRemove
  \/ \E h \in {"handler", "txHandler"} : ReceiveMessage(h)
  \/ \E t \in TaskIds : handleMsgGate(t)
  \/ \E t \in TaskIds : handleMsgHandle(t)
  \/ \E t \in TaskIds : txFetch(t)
  \/ \E t \in TaskIds : txEnsure(t)
  \/ \E t \in TaskIds : txPublish(t)
  \/ \E t \in TaskIds : txRemoveDone(t)
  \/ \E t \in TaskIds : handleMsgRelease(t)
  \/ \E t \in TaskIds : handleMsgDeadLetter(t)
  \/ \E t \in TaskIds : handleMsgRequeue(t)
  \/ \E t \in TaskIds : Delivered(t)

SpecTx == InitTx /\ [][NextTx]_vars

\* Send runs to its return and the goroutines of both handlers are scheduled.
SpecTxFair == SpecTx /\ WF_vars(NextTx)

(* ---------- the reconciliation over a TxStorage that may fail --------- *)
\* The application sends with or without a route key, over a TxStorage whose
\* Fetch succeeds or may return an error.
ReconcileConfs ==
  {[ValidConf EXCEPT !.RouteKey = k, !.failing = f] : k \in {"", "rk"}, f \in {{}, {"Fetch"}}}

InitReconcile ==
  /\ handler = TxConsumer
  /\ sender \in TxSenders
  /\ InitData
  /\ Serving
  /\ trip = NoTrip
  /\ conf \in ReconcileConfs

SpecReconcile == InitReconcile /\ [][NextTx]_vars

(* ============================ lifecycle =============================== *)
Op(o) == [ops EXCEPT ![o] = @ + 1]

\* The first call frame not yet used: calls are interchangeable.
FirstIdle(frames, idle) ==
  CHOOSE i \in DOMAIN frames :
    /\ frames[i] = idle
    /\ \A j \in DOMAIN frames : frames[j] = idle => i <= j

\* What Prepare puts in the fields the application left nil.
WithDefaults(cfg) ==
  [cfg EXCEPT !.DLStorage = IF @ = "nil" THEN "null" ELSE @,
              !.Idempotent = IF @ = "nil" THEN "null" ELSE @,
              !.EnsureFunc = IF @ = "nil" THEN "deny" ELSE @,
              !.RetryDelay = IF @ = "nil" THEN "none" ELSE @]

(* --------------------------- Handler.Prepare -------------------------- *)
\* h.Do(f): the first caller runs f; a caller arriving while f runs waits for
\* it; a caller arriving after it returns at once.
PrepareCall(p) ==
  /\ \E q \in PrepIds : hprep[q] = "idle"
  /\ p = FirstIdle(hprep, "idle")
  /\ hprep' = [hprep EXCEPT ![p] = CASE hfields.once = "new" -> "init"
                                     [] hfields.once = "doing" -> "blocked"
                                     [] hfields.once = "done" -> "returned"]
  /\ hfields' = [hfields EXCEPT !.once = IF @ = "new" THEN "doing" ELSE @]
  /\ UNCHANGED <<errs, txh, conf, trip, handler, sender, queues, tasks, idem, dls, calls, sent, faults, txvars,
                 sfields, ops, sprep, runs, waits, cancelled>>

PrepareUnblock(p) ==
  /\ hprep[p] = "blocked"
  /\ hfields.once = "done"
  /\ hprep' = [hprep EXCEPT ![p] = "returned"]
  /\ UNCHANGED <<errs, txh, conf, trip, handler, sender, queues, tasks, idem, dls, calls, sent, faults, txvars,
                 hfields, sfields, ops, sprep, runs, waits, cancelled>>

\* if h.Queue == "" / h.Driver == nil / h.HandleFunc == nil { throw(...) }
HandlerIncomplete ==
  handler.Queue = "" \/ conf.hDriver = "nil" \/ handler.HandleFunc = "nil"

\* The checks and defaults, then initDriver: CreateQueue makes the queue anew,
\* and Subscribe on a topic nobody created writes to a nil map; a throw of the
\* checks or of initDriver (on an error of CreateQueue or Subscribe), like
\* that panic, leaves f, and the Once counts f as done.
PrepareInit(p) ==
  /\ hprep[p] = "init"
  /\ IF HandlerIncomplete
     THEN /\ hprep' = [hprep EXCEPT ![p] = "panicked"]
          /\ hfields' = [hfields EXCEPT !.once = "done"]
          /\ UNCHANGED <<handler, queues, ops>>
     ELSE /\ handler' = WithDefaults(handler)
          /\ IF "CreateQueue" \in conf.failing
             THEN /\ ops' = Op("CreateQueue")
                  /\ hprep' = [hprep EXCEPT ![p] = "panicked"]
                  /\ hfields' = [hfields EXCEPT !.once = "done"]
                  /\ UNCHANGED queues
             ELSE /\ queues' = [queues EXCEPT ![handler.Queue] = << >>]
                  /\ IF ops["CreateTopic"] > 0 /\ "Subscribe" \notin conf.failing
                     THEN /\ ops' = [ops EXCEPT !["CreateQueue"] = @ + 1,
                                               !["Subscribe"] = @ + 1]
                          /\ hprep' = [hprep EXCEPT ![p] = "ready"]
                          /\ UNCHANGED hfields
                     ELSE /\ ops' = Op("CreateQueue")
                          /\ hprep' = [hprep EXCEPT ![p] = "panicked"]
                          /\ hfields' = [hfields EXCEPT !.once = "done"]
  /\ UNCHANGED <<errs, txh, conf, trip, sender, tasks, idem, dls, calls, sent, faults, txvars,
                 sfields, sprep, runs, waits, cancelled>>

\* h.ready = true
PrepareReady(p) ==
  /\ hprep[p] = "ready"
  /\ hfields' = [hfields EXCEPT !.ready = TRUE]
  /\ hprep' = [hprep EXCEPT ![p] = "quit"]
  /\ UNCHANGED <<errs, txh, conf, trip, handler, sender, queues, tasks, idem, dls, calls, sent, faults, txvars,
                 sfields, ops, sprep, runs, waits, cancelled>>

\* h.quit = make(chan struct{}); f returns and the Once is done.
PrepareQuit(p) ==
  /\ hprep[p] = "quit"
  /\ hfields' = [hfields EXCEPT !.quit = "made", !.once = "done"]
  /\ ops' = Op("quit")
  /\ hprep' = [hprep EXCEPT ![p] = "returned"]
  /\ UNCHANGED <<errs, txh, conf, trip, handler, sender, queues, tasks, idem, dls, calls, sent, faults, txvars,
                 sfields, sprep, runs, waits, cancelled>>

(* --------------------------- Sender.Prepare --------------------------- *)
\* if s.ready { return s }
SenderPrepareCall(p) ==
  /\ \E q \in PrepIds : sprep[q] = "idle"
  /\ p = FirstIdle(sprep, "idle")
  /\ sprep' = [sprep EXCEPT ![p] = IF sfields.ready THEN "returned" ELSE "build"]
  /\ UNCHANGED <<errs, txh, conf, trip, handler, sender, queues, tasks, idem, dls, calls, sent, faults, txvars,
                 hfields, sfields, ops, hprep, runs, waits, cancelled>>

\* TxOptions.prepare: Timeout <= 0, EnsureFunc == nil or TxStorage == nil throws.
TxOptionsIncomplete ==
  conf.Timeout <= 0 \/ conf.TxEnsureFunc = "nil" \/ conf.TxStorage = "nil"

\* Sender.Prepare throws: no Driver; an error of CreateTopic; with TxOptions,
\* their checks and the Prepare of the tx-handler, whose CreateQueue may fail.
\* The Topic is not looked at.
SenderThrows ==
  \/ conf.sDriver = "nil"
  \/ "CreateTopic" \in conf.failing
  \/ sfields.tx /\ (TxOptionsIncomplete \/ "CreateQueue" \in conf.failing)

\* The throw comes from the Prepare of the tx-handler, which s.txHandler
\* already holds: its quit channel is never made.
TxHandlerThrows ==
  /\ sfields.tx /\ "CreateQueue" \in conf.failing
  /\ conf.sDriver # "nil" /\ "CreateTopic" \notin conf.failing /\ ~TxOptionsIncomplete

\* CreateTopic and, with TxOptions, the tx-handler: built, prepared (its queue
\* is made anew) and started with go RunCtx; a throw leaves Prepare before
\* s.ready is set.
SenderPrepareBuild(p) ==
  /\ sprep[p] = "build"
  /\ IF SenderThrows
     THEN /\ ops' = IF conf.sDriver = "nil" THEN ops ELSE Op("CreateTopic")
          /\ sprep' = [sprep EXCEPT ![p] = "panicked"]
          /\ txh' = IF TxHandlerThrows
                    THEN [txh EXCEPT !.cur = p, !.h[p] = NoTxHandler]
                    ELSE txh
          /\ UNCHANGED queues
     ELSE /\ ops' = [ops EXCEPT !["CreateTopic"] = @ + 1,
                               !["txHandler"] = IF sfields.tx THEN @ + 1 ELSE @]
          /\ queues' = IF sfields.tx THEN [queues EXCEPT ![RecordQueue] = << >>] ELSE queues
          /\ txh' = IF sfields.tx
                    THEN [txh EXCEPT !.cur = p, !.h[p] = [quit |-> "made", pc |-> "go"]]
                    ELSE txh
          /\ sprep' = [sprep EXCEPT ![p] = "ready"]
  /\ UNCHANGED <<errs, conf, trip, handler, sender, tasks, idem, dls, calls, sent, faults, txvars,
                 hfields, sfields, hprep, runs, waits, cancelled>>

\* s.ready = true
SenderPrepareReady(p) ==
  /\ sprep[p] = "ready"
  /\ sfields' = [sfields EXCEPT !.ready = TRUE]
  /\ sprep' = [sprep EXCEPT ![p] = "returned"]
  /\ UNCHANGED <<errs, txh, conf, trip, handler, sender, queues, tasks, idem, dls, calls, sent, faults, txvars,
                 hfields, ops, hprep, runs, waits, cancelled>>

\* Send on a Sender that is not ready: throw, before anything else.
SendUnprepared ==
  /\ ~sfields.ready
  /\ sent < MaxSends
  /\ sent' = sent + 1
  /\ ops' = Op("sendThrow")
  /\ UNCHANGED <<errs, txh, conf, trip, handler, sender, queues, tasks, idem, dls, calls, faults, txvars,
                 hfields, sfields, hprep, sprep, runs, waits, cancelled>>

(* ------------------------ Handler.Run and RunCtx ---------------------- *)
\* A call of Run, or of RunCtx(ctx), which first assigns h.Context = ctx.
RunCall(r, api, ctx) ==
  /\ \E q \in RunIds : runs[q] = IdleRun
  /\ r = FirstIdle(runs, IdleRun)
  /\ runs' = [runs EXCEPT ![r].pc = "check"]
  /\ hfields' = IF api = "RunCtx" THEN [hfields EXCEPT !.Context = ctx] ELSE hfields
  /\ UNCHANGED <<errs, txh, conf, trip, handler, sender, queues, tasks, idem, dls, calls, sent, faults, txvars,
                 sfields, ops, hprep, sprep, waits, cancelled>>

\* if h.ready == false { throw(...) }
RunCheck(r) ==
  /\ runs[r].pc = "check"
  /\ runs' = [runs EXCEPT ![r].pc = IF hfields.ready THEN "cas" ELSE "thrown"]
  /\ ops' = IF hfields.ready THEN ops ELSE Op("throw")
  /\ UNCHANGED <<errs, txh, conf, trip, handler, sender, queues, tasks, idem, dls, calls, sent, faults, txvars,
                 hfields, sfields, hprep, sprep, waits, cancelled>>

\* CompareAndSwap(&h.running, 0, 1): on failure return; on success errChan with
\* its draining goroutine and the ticker with its goroutine.
RunStart(r) ==
  /\ runs[r].pc = "cas"
  /\ IF hfields.running = 1
     THEN /\ runs' = [runs EXCEPT ![r].pc = "rejected"]
          /\ UNCHANGED <<hfields, ops>>
     ELSE /\ hfields' = [hfields EXCEPT !.running = 1]
          /\ runs' = [runs EXCEPT ![r] = [@ EXCEPT !.pc = "call", !.errChan = "open",
                                                   !.ticker = "on", !.worker.pc = "idle",
                                                   !.drain = "idle"]]
          /\ ops' = [ops EXCEPT !["errDrain"] = @ + 1, !["ticker"] = @ + 1]
  /\ UNCHANGED <<errs, txh, conf, trip, handler, sender, queues, tasks, idem, dls, calls, sent, faults, txvars,
                 sfields, hprep, sprep, waits, cancelled>>

\* h.Driver.ReceiveMessage(h.Context, h.Queue, errChan, h.handleMsg): the call.
RunReceive(r) ==
  /\ runs[r].pc = "call"
  /\ runs' = [runs EXCEPT ![r] = [@ EXCEPT !.pc = "receive", !.ctx = hfields.Context]]
  /\ ops' = Op("ReceiveMessage")
  /\ UNCHANGED <<errs, txh, conf, trip, handler, sender, queues, tasks, idem, dls, calls, sent, faults, txvars,
                 hfields, sfields, hprep, sprep, waits, cancelled>>

\* Mutant of ReceiveReturn: the loop watches the Handler's Context field
\* instead of the context it was called with.
ReceiveReturnOnField(r) ==
  /\ runs[r].pc = "receive"
  /\ hfields.Context \in cancelled
  /\ runs' = [runs EXCEPT ![r].pc = "close"]
  /\ UNCHANGED <<errs, txh, conf, trip, handler, sender, queues, tasks, idem, dls, calls, sent, faults, txvars,
                 hfields, sfields, ops, hprep, sprep, waits, cancelled>>

\* The select of ReceiveMessage takes <-ctx.Done() and returns.
ReceiveReturn(r) ==
  /\ runs[r].pc = "receive"
  /\ runs[r].ctx \in cancelled
  /\ runs' = [runs EXCEPT ![r].pc = "close"]
  /\ UNCHANGED <<errs, txh, conf, trip, handler, sender, queues, tasks, idem, dls, calls, sent, faults, txvars,
                 hfields, sfields, ops, hprep, sprep, waits, cancelled>>

\* close(errChan): the range over it ends, at once if the goroutine waits on it.
RunClose(r) ==
  /\ runs[r].pc = "close"
  /\ runs' = [runs EXCEPT ![r] = [@ EXCEPT !.pc = "stop", !.errChan = "closed",
                                           !.drain = IF @ = "idle" THEN "off" ELSE @]]
  /\ UNCHANGED <<errs, txh, conf, trip, handler, sender, queues, tasks, idem, dls, calls, sent, faults, txvars,
                 hfields, sfields, ops, hprep, sprep, waits, cancelled>>

\* ticker.Stop(): no tick is sent any more; one already in ticker.C stays there.
RunStop(r) ==
  /\ runs[r].pc = "stop"
  /\ runs' = [runs EXCEPT ![r] = [@ EXCEPT !.pc = "clear", !.ticker = "stopped"]]
  /\ UNCHANGED <<errs, txh, conf, trip, handler, sender, queues, tasks, idem, dls, calls, sent, faults, txvars,
                 hfields, sfields, ops, hprep, sprep, waits, cancelled>>

\* atomic.StoreInt32(&h.running, 0); then h.quit is read for the send.
RunClear(r) ==
  /\ runs[r].pc = "clear"
  /\ hfields' = [hfields EXCEPT !.running = 0]
  /\ runs' = [runs EXCEPT ![r] = [@ EXCEPT !.pc = "post", !.quit = hfields.quit]]
  /\ UNCHANGED <<errs, txh, conf, trip, handler, sender, queues, tasks, idem, dls, calls, sent, faults, txvars,
                 sfields, ops, hprep, sprep, waits, cancelled>>

\* Mutant of RunPost: the post releases every blocked Wait, as close(h.quit) would.
RunPostClose(r, w) ==
  /\ runs[r].pc = "post"
  /\ runs[r].quit = "made"
  /\ waits[w] = "blocked"
  /\ runs' = [runs EXCEPT ![r].pc = "returned"]
  /\ waits' = [v \in WaitIds |-> IF waits[v] = "blocked" THEN "released" ELSE waits[v]]
  /\ ops' = Op("post")
  /\ UNCHANGED <<errs, txh, conf, trip, handler, sender, queues, tasks, idem, dls, calls, sent, faults, txvars,
                 hfields, sfields, hprep, sprep, cancelled>>

\* h.quit <- struct{}{} meets <-h.quit: the channel has no buffer, so the send
\* and one receive complete together (never on a nil channel).
RunPost(r, w) ==
  /\ runs[r].pc = "post"
  /\ runs[r].quit = "made"
  /\ waits[w] = "blocked"
  /\ runs' = [runs EXCEPT ![r].pc = "returned"]
  /\ waits' = [waits EXCEPT ![w] = "released"]
  /\ ops' = Op("post")
  /\ UNCHANGED <<errs, txh, conf, trip, handler, sender, queues, tasks, idem, dls, calls, sent, faults, txvars,
                 hfields, sfields, hprep, sprep, cancelled>>

\* Wait: <-h.quit, on the channel h.quit holds at the call (nil blocks for ever).
Wait(w) ==
  /\ \E v \in WaitIds : waits[v] = "idle"
  /\ w = FirstIdle(waits, "idle")
  /\ waits' = [waits EXCEPT ![w] = IF hfields.quit = "made" THEN "blocked" ELSE "nil"]
  /\ UNCHANGED <<errs, txh, conf, trip, handler, sender, queues, tasks, idem, dls, calls, sent, faults, txvars,
                 hfields, sfields, ops, hprep, sprep, runs, cancelled>>

\* The CancelFunc of a context.
Cancel(ctx) ==
  /\ ctx \notin cancelled
  /\ cancelled' = cancelled \cup {ctx}
  /\ UNCHANGED <<errs, txh, conf, trip, handler, sender, queues, tasks, idem, dls, calls, sent, faults, txvars,
                 hfields, sfields, ops, hprep, sprep, runs, waits>>

(* ------------------- the ticker and Handler.handleRetry --------------- *)
\* The rows handleRetry ranges over: the map Fetch returned, which is the
\* store's own map of the queue (nil for nullDLStorage).
Rows == IF handler.DLStorage \in DLStorages THEN DLFetch(dls, handler.Queue) ELSE << >>

\* The ticker sends a tick unless one is still waiting in ticker.C.
Tick(r) ==
  /\ runs[r].ticker = "on"
  /\ ~runs[r].tick
  /\ runs' = [runs EXCEPT ![r].tick = TRUE]
  /\ UNCHANGED <<errs, txh, conf, trip, handler, sender, queues, tasks, idem, dls, calls, sent, faults, txvars,
                 hfields, sfields, ops, hprep, sprep, waits, cancelled>>

\* The ticker goroutine takes the tick and handleRetry fetches the rows; a
\* store without a map for the queue gives nothing to range over, and a Fetch
\* error is logged and ends this handleRetry.
handleRetryFetch(r) ==
  /\ runs[r].worker.pc = "idle"
  /\ runs[r].tick
  /\ \E err \in StoreErrs(handler.DLStorage) :
       /\ runs' = [runs EXCEPT ![r] =
                     [@ EXCEPT !.tick = FALSE,
                               !.worker = IF err \/ DOMAIN Rows = {} THEN @
                                          ELSE [pc |-> "range", first |-> DOMAIN Rows,
                                                visited |-> {}, cur |-> 0]]]
       /\ faults' = Fault(err)
  /\ UNCHANGED <<errs, txh, conf, trip, handler, sender, queues, tasks, idem, dls, calls, sent, txvars,
                 hfields, sfields, ops, hprep, sprep, waits, cancelled>>

\* for id, data := range rows: the next row, one not produced yet (a row
\* stored since the range began may be produced or not); handleMsg(data) is
\* called in the ticker goroutine.
handleRetryNext(r) ==
  /\ runs[r].worker.pc = "range"
  /\ ops["replay"] < MaxReplays
  /\ \E id \in DOMAIN Rows \ runs[r].worker.visited :
       /\ runs' = [runs EXCEPT ![r].worker =
                     [@ EXCEPT !.pc = "call", !.cur = id, !.visited = @ \cup {id}]]
       /\ tasks' = [tasks EXCEPT ![RetryTask(r)] =
                      [IdleTask EXCEPT !.pc = "gate", !.data = Rows[id]]]
  /\ ops' = Op("replay")
  /\ UNCHANGED <<errs, txh, conf, trip, handler, sender, queues, idem, dls, calls, sent, faults, txvars,
                 hfields, sfields, hprep, sprep, waits, cancelled>>

\* if h.handleMsg(data) { ... }: Remove is called iff handleMsg returned true.
RemoveCalled(done) == done

\* if h.handleMsg(data) { h.DLStorage.Remove(id) }; a removed id is a new row
\* if it is stored again; a Remove error is logged and the range goes on.
handleRetryReturn(r) ==
  /\ runs[r].worker.pc = "call"
  /\ tasks[RetryTask(r)].pc = "done"
  /\ \E err \in (IF RemoveCalled(tasks[RetryTask(r)].done)
                 THEN StoreErrs(handler.DLStorage) ELSE {FALSE}) :
       LET id == runs[r].worker.cur
           gone == RemoveCalled(tasks[RetryTask(r)].done) /\ ~err
       IN  /\ dls' = IF gone THEN DLRemove(handler.DLStorage, dls, id) ELSE dls
           /\ faults' = Fault(err)
           /\ runs' = [runs EXCEPT ![r].worker =
                         [@ EXCEPT !.pc = "range",
                                   !.first = IF gone THEN @ \ {id} ELSE @,
                                   !.visited = IF gone THEN @ \ {id} ELSE @]]
  /\ tasks' = [tasks EXCEPT ![RetryTask(r)] = IdleTask]
  /\ UNCHANGED <<errs, txh, conf, trip, handler, sender, queues, idem, calls, sent, txvars,
                 hfields, sfields, ops, hprep, sprep, waits, cancelled>>

\* The range ends once every row it began with was produced or removed.
handleRetryEnd(r) ==
  /\ runs[r].worker.pc = "range"
  /\ (runs[r].worker.first \cap DOMAIN Rows) \subseteq runs[r].worker.visited
  /\ runs' = [runs EXCEPT ![r].worker = [NoWorker EXCEPT !.pc = "idle"]]
  /\ UNCHANGED <<errs, txh, conf, trip, handler, sender, queues, tasks, idem, dls, calls, sent, faults, txvars,
                 hfields, sfields, ops, hprep, sprep, waits, cancelled>>

(* ----------------- a prepared Handler: Run, cancel, Wait -------------- *)
\* Both components after Prepare, nothing running yet.
Prepared ==
  /\ hfields = [once |-> "done", ready |-> TRUE, quit |-> "made", running |-> 0,
                Context |-> "ctx1"]
  /\ sfields = [ready |-> TRUE, tx |-> FALSE]
  /\ txh = NoTxHandlers
  /\ ops = [o \in LifeOps |->
              IF o \in {"CreateQueue", "Subscribe", "CreateTopic", "quit"} THEN 1 ELSE 0]
  /\ hprep = [p \in PrepIds |-> IF p = 1 THEN "returned" ELSE "idle"]
  /\ sprep = [p \in PrepIds |-> IF p = 1 THEN "returned" ELSE "idle"]
  /\ runs = [r \in RunIds |-> IdleRun]
  /\ waits = [w \in WaitIds |-> "idle"]
  /\ cancelled = {}

\* A consumer whose HandleFunc accepts every message: nothing is dead-lettered
\* and handleRetry finds no row.
LifeConsumer ==
  [Queue |-> ConsumerQueue, Idempotent |-> "null", DLStorage |-> "internal",
   EnsureFunc |-> "allow", HandleFunc |-> "ok", RetryDelay |-> "none"]

InitLife ==
  /\ handler = LifeConsumer
  /\ sender = NoTx
  /\ InitData
  /\ Prepared
  /\ trip = NoTrip
  /\ conf = ValidConf

Invocations == TaskIds \cup RetryTasks

NextLife ==
  \/ sent < MaxLifeSends /\ Send(BizUID(1))
  \/ \E r \in RunIds, api \in {"Run", "RunCtx"}, ctx \in Ctxs : RunCall(r, api, ctx)
  \/ \E r \in RunIds : RunCheck(r)
  \/ \E r \in RunIds : RunStart(r)
  \/ \E r \in RunIds : RunReceive(r)
  \/ \E r \in RunIds : ReceiveReturn(r)
  \/ \E r \in RunIds : RunClose(r)
  \/ \E r \in RunIds : RunStop(r)
  \/ \E r \in RunIds : RunClear(r)
  \/ \E r \in RunIds, w \in WaitIds : RunPost(r, w)
  \/ \E w \in WaitIds : Wait(w)
  \/ \E ctx \in Ctxs : Cancel(ctx)
  \/ ReceiveMessage("handler")
  \/ \E t \in TaskIds : handleMsgGate(t)
  \/ \E t \in TaskIds : handleMsgHandle(t)
  \/ \E t \in TaskIds : Delivered(t)
  \/ \E r \in RunIds : Tick(r)
  \/ \E r \in RunIds : handleRetryFetch(r)

SpecLife == InitLife /\ [][NextLife]_vars

\* The steps of one Run call, from its ready check to its return.
RunSteps(r) ==
  \/ RunCheck(r)
  \/ RunStart(r)
  \/ RunReceive(r)
  \/ ReceiveReturn(r)
  \/ RunClose(r)
  \/ RunStop(r)
  \/ RunClear(r)
  \/ \E w \in WaitIds : RunPost(r, w)

\* The goroutine of every Run call is scheduled; the application's own calls
\* (Run, RunCtx, Wait, cancel, Send) are made or not.
SpecLifeFair == SpecLife /\ \A r \in RunIds : WF_vars(RunSteps(r))

(* -------- a serving Handler over every kind of store and callback ----- *)
\* Stores that refuse, grant or fail, callbacks that decide per message or
\* panic, no retry; the nil fields take the defaults of Prepare.
GateConfigs ==
  [Queue : {ConsumerQueue}, Idempotent : {"nil", "internal", "erring"},
   DLStorage : {"internal", "failing"}, EnsureFunc : {"nil", "any", "panic"},
   HandleFunc : {"any", "panic"}, RetryDelay : {"nil", "panic"}]

InitGate ==
  /\ handler \in {WithDefaults(cfg) : cfg \in GateConfigs}
  /\ sender = NoTx
  /\ InitRest

NextGate ==
  \/ \E n \in 1..(sent + 1) : Send(BizUID(n))
  \/ SendToQueueGarbage
  \/ ReceiveMessage("handler")
  \/ \E t \in TaskIds : handleMsgGate(t)
  \/ \E t \in TaskIds : handleMsgHandle(t)
  \/ \E t \in TaskIds : handleMsgRelease(t)
  \/ \E t \in TaskIds : handleMsgDeadLetter(t)
  \/ \E t \in TaskIds : handleMsgPanic(t)
  \/ \E t \in TaskIds : Delivered(t)

SpecGate == InitGate /\ [][NextGate]_vars

(* ------------- a serving Handler with its dead-letter ticker ---------- *)
\* A consumer that dead-letters what its HandleFunc refuses.
RetryConsumers ==
  [Queue : {ConsumerQueue}, Idempotent : {"null"}, DLStorage : {"internal"},
   EnsureFunc : {"allow"}, HandleFunc : {"any"}, RetryDelay : {"none", "bounded"}]

InitRetry ==
  /\ handler \in RetryConsumers
  /\ sender = NoTx
  /\ InitRest

NextRetry ==
  \/ \E n \in 1..(sent + 1) : Send(BizUID(n))
  \/ ReceiveMessage("handler")
  \/ \E t \in Invocations : handleMsgGate(t)
  \/ \E t \in Invocations : handleMsgHandle(t)
  \/ \E t \in Invocations : handleMsgRelease(t)
  \/ \E t \in Invocations : handleMsgDeadLetter(t)
  \/ \E t \in Invocations : handleMsgRequeue(t)
  \/ \E t \in TaskIds : Delivered(t)
  \/ \E r \in RunIds : Tick(r)
  \/ \E r \in RunIds : handleRetryFetch(r)
  \/ \E r \in RunIds : handleRetryNext(r)
  \/ \E r \in RunIds : handleRetryReturn(r)
  \/ \E r \in RunIds : handleRetryEnd(r)

SpecRetry == InitRetry /\ [][NextRetry]_vars

(* ----------------- components between construction and Run ------------ *)
\* A Handler and a Sender as constructed: nothing declared, nothing running.
Constructed ==
  /\ hfields = [once |-> "new", ready |-> FALSE, quit |-> "nil", running |-> 0,
                Context |-> "ctx1"]
  /\ sfields = [ready |-> FALSE, tx |-> TRUE]
  /\ txh = NoTxHandlers
  /\ ops = [o \in LifeOps |-> 0]
  /\ hprep = [p \in PrepIds |-> "idle"]
  /\ sprep = [p \in PrepIds |-> "idle"]
  /\ runs = [r \in RunIds |-> IdleRun]
  /\ waits = [w \in WaitIds |-> "idle"]
  /\ cancelled = {}

\* The fields an application may leave nil are nil or set.
Configs ==
  [Queue : {ConsumerQueue}, Idempotent : {"nil", "internal"}, DLStorage : {"nil"},
   EnsureFunc : {"nil", "allow"}, HandleFunc : {"ok"}, RetryDelay : {"nil"}]

InitPrepare ==
  /\ handler \in Configs
  /\ sender = NoTx
  /\ InitData
  /\ Constructed
  /\ trip = NoTrip
  /\ conf = ValidConf

\* Construction to the receive loop: the calls of Prepare, Run, RunCtx and
\* Send in any order and overlap, up to the call of ReceiveMessage.
NextPrepare ==
  \/ \E p \in PrepIds : PrepareCall(p)
  \/ \E p \in PrepIds : PrepareUnblock(p)
  \/ \E p \in PrepIds : PrepareInit(p)
  \/ \E p \in PrepIds : PrepareReady(p)
  \/ \E p \in PrepIds : PrepareQuit(p)
  \/ \E p \in PrepIds : SenderPrepareCall(p)
  \/ \E p \in PrepIds : SenderPrepareBuild(p)
  \/ \E p \in PrepIds : SenderPrepareReady(p)
  \/ SendUnprepared
  \/ \E n \in 1..(sent + 1) : Send(BizUID(n))
  \/ \E r \in RunIds, api \in {"Run", "RunCtx"} : RunCall(r, api, hfields.Context)
  \/ \E r \in RunIds : RunCheck(r)
  \/ \E r \in RunIds : RunStart(r)
  \/ \E r \in RunIds : RunReceive(r)

SpecPrepare == InitPrepare /\ [][NextPrepare]_vars

(* ------------------- Prepare of an incomplete component --------------- *)
\* The Timeout of TxOptions: positive, or not.
Timeouts == {Timeout, 0, 0 - 1}

\* The driver operations of Prepare that a driver may refuse.
Declarations == {"CreateQueue", "Subscribe", "CreateTopic"}

\* What an application may configure: everything, or everything but one
\* thing: a Driver, the Topic, one of the fields TxOptions needs, or a driver
\* whose CreateQueue, Subscribe or CreateTopic returns an error.
Confs ==
  {c \in [hDriver : {"nil", "set"}, sDriver : {"nil", "set"}, Topic : {"", Topic},
          Timeout : Timeouts, TxEnsureFunc : {"nil", "set"}, TxStorage : {"nil", "set"},
          RouteKey : {""}, failing : {{}} \cup {{d} : d \in Declarations}] :
     Cardinality({f \in DOMAIN c : c[f] # ValidConf[f]}) <= 1}

\* The Handler literal of the application: complete, or without Queue or HandleFunc.
HandlerConfs ==
  {h \in [Queue : {ConsumerQueue, ""}, Idempotent : {"nil"}, DLStorage : {"nil"},
          EnsureFunc : {"nil"}, HandleFunc : {"ok", "nil"}, RetryDelay : {"nil"}] :
     h.Queue # "" \/ h.HandleFunc # "nil"}

InitValidate ==
  /\ handler \in HandlerConfs
  /\ sender = NoTx
  /\ InitData
  /\ Constructed
  /\ trip = NoTrip
  /\ conf \in Confs
  /\ (handler.Queue = "" \/ handler.HandleFunc = "nil") => conf = ValidConf

SpecValidate == InitValidate /\ [][NextPrepare]_vars

(* -------------- Sender.Wait and the Run of the tx-handler ------------- *)
\* go s.txHandler.RunCtx(s.TxOptions.Context): the goroutine sets h.Context,
\* passes the ready check and the CAS, starts the goroutines of errChan and of
\* the ticker and calls ReceiveMessage.
txRunStart(p) ==
  /\ txh.h[p].pc = "go"
  /\ txh' = [txh EXCEPT !.h[p].pc = "receive"]
  /\ UNCHANGED <<errs, conf, trip, handler, sender, queues, tasks, idem, dls, calls, sent, faults,
                 txvars, lifevars>>

\* ReceiveMessage of the tx-handler takes <-ctx.Done() and returns; Run closes
\* errChan, stops the ticker, clears running and comes to its post.
txReceiveReturn(p) ==
  /\ txh.h[p].pc = "receive"
  /\ TxContext \in cancelled
  /\ txh' = [txh EXCEPT !.h[p].pc = "post"]
  /\ UNCHANGED <<errs, conf, trip, handler, sender, queues, tasks, idem, dls, calls, sent, faults,
                 txvars, lifevars>>

\* Mutant of txRunPost: the post needs no receiver, as on a buffered channel,
\* and a Wait blocked on the channel is released whenever a post was made.
txRunPostBuffered(p, w) ==
  /\ txh.waits[w].pc = "blocked"
  /\ txh.waits[w].on = p
  /\ txh.h[p].pc \in {"go", "receive", "post", "returned"}
  /\ txh' = [txh EXCEPT !.h[p].pc = IF @ = "post" THEN "returned" ELSE @,
                        !.waits[w].pc = "released"]
  /\ UNCHANGED <<errs, conf, trip, handler, sender, queues, tasks, idem, dls, calls, sent, faults,
                 txvars, lifevars>>

\* h.quit <- struct{}{} of the tx-handler meets the <-h.quit of one Wait call.
txRunPost(p, w) ==
  /\ txh.h[p].pc = "post"
  /\ txh.waits[w].pc = "blocked"
  /\ txh.waits[w].on = p
  /\ txh' = [txh EXCEPT !.h[p].pc = "returned", !.waits[w].pc = "released"]
  /\ UNCHANGED <<errs, conf, trip, handler, sender, queues, tasks, idem, dls, calls, sent, faults,
                 txvars, lifevars>>

\* Sender.Wait: if s.txHandler == nil { return }; s.txHandler.Wait(), which is
\* <-h.quit on the channel the tx-handler holds (nil blocks for ever).
SenderWait(w) ==
  /\ \E v \in WaitIds : txh.waits[v] = IdleWait
  /\ w = FirstIdle(txh.waits, IdleWait)
  /\ txh' = [txh EXCEPT !.waits[w] =
                [pc |-> IF txh.cur = 0 THEN "returned"
                        ELSE IF txh.h[txh.cur].quit = "made" THEN "blocked" ELSE "nil",
                 on |-> txh.cur]]
  /\ UNCHANGED <<errs, conf, trip, handler, sender, queues, tasks, idem, dls, calls, sent, faults,
                 txvars, lifevars>>

\* A Sender with or without TxOptions, constructed and not prepared yet.
InitWait ==
  /\ handler = LifeConsumer
  /\ sender = NoTx
  /\ InitData
  /\ hfields = [once |-> "new", ready |-> FALSE, quit |-> "nil", running |-> 0,
                Context |-> "ctx1"]
  /\ sfields \in [ready : {FALSE}, tx : BOOLEAN]
  /\ txh = NoTxHandlers
  /\ ops = [o \in LifeOps |-> 0]
  /\ hprep = [p \in PrepIds |-> "idle"]
  /\ sprep = [p \in PrepIds |-> "idle"]
  /\ runs = [r \in RunIds |-> IdleRun]
  /\ waits = [w \in WaitIds |-> "idle"]
  /\ cancelled = {}
  /\ trip = NoTrip
  /\ conf = ValidConf

\* Prepare, Send, Wait and the cancellation of TxOptions.Context in any order
\* and overlap, with the goroutine of the tx-handler's RunCtx.
NextWait ==
  \/ \E p \in PrepIds : SenderPrepareCall(p)
  \/ \E p \in PrepIds : SenderPrepareBuild(p)
  \/ \E p \in PrepIds : SenderPrepareReady(p)
  \/ SendUnprepared
  \/ \E n \in 1..(sent + 1) : Send(BizUID(n))
  \/ \E w \in WaitIds : SenderWait(w)
  \/ Cancel(TxContext)
  \/ \E p \in PrepIds : txRunStart(p)
  \/ \E p \in PrepIds : txReceiveReturn(p)
  \/ \E p \in PrepIds, w \in WaitIds : txRunPost(p, w)

SpecWait == InitWait /\ [][NextWait]_vars

\* The steps of the goroutine of one tx-handler's RunCtx.
txRunSteps(p) ==
  \/ txRunStart(p)
  \/ txReceiveReturn(p)
  \/ \E w \in WaitIds : txRunPost(p, w)

\* The goroutine of every tx-handler is scheduled; the application's own
\* calls (Prepare, Send, Wait, cancel) are made or not.
SpecWaitFair == SpecWait /\ \A p \in PrepIds : WF_vars(txRunSteps(p))

(* ------------------ Sender.Send: the choice of the path --------------- *)
\* The route keys of a message: none, or one no queue subscribes with.
RouteKeys == {"", "rk"}

\* Mutant of NoLocalTx: only a call without the argument counts.
NoLocalTxEmpty(localTx) == localTx = "none"

\* len(localTx) == 0 || localTx[0] == nil
NoLocalTx(localTx) == localTx \in {"none", "nil"}

\* Send without a local transaction: Driver.SendToTopic(s.Topic, encode(msg),
\* msg.RouteKey); its error is returned, wrapped, and nil otherwise.
SendDirect(b, k, localTx) ==
  /\ sfields.ready
  /\ NoLocalTx(localTx)
  /\ sent < MaxSends
  /\ sent' = sent + 1
  /\ \E err \in TopicErrs :
       LET msg == MessageWithId(b, PayloadBytes, k)
           frame == [IdleSend EXCEPT !.b = b, !.k = k, !.localTx = localTx,
                                     !.data = encode(msg), !.ops = <<"SendToTopic">>]
       IN  /\ faults' = Fault(err)
           /\ queues' = IF err THEN queues ELSE SendToTopic(queues, encode(msg), msg.k)
           /\ calls' = IF err THEN Bump("topic", b)
                       ELSE [calls EXCEPT !.topic[b] = @ + 1, !.publish[b] = @ + 1]
           /\ returned' = Return(frame, IF err THEN "errTopic" ELSE "nil")
  /\ UNCHANGED <<errs, txh, conf, trip, lifevars, handler, sender, tasks, idem, dls, txs, send, biz, early>>

\* Send with a localTx on a Sender without TxOptions: an error, at once.
SendNoTxOptions(b, k, localTx) ==
  /\ sfields.ready
  /\ ~NoLocalTx(localTx)
  /\ ~sfields.tx
  /\ sent < MaxSends
  /\ sent' = sent + 1
  /\ returned' = Return([IdleSend EXCEPT !.b = b, !.k = k, !.localTx = localTx], "errNoTx")
  /\ UNCHANGED <<errs, txh, conf, trip, lifevars, handler, sender, queues, tasks, idem, dls, txs, send, biz, early,
                 calls, faults>>

\* Senders with and without TxOptions, over a driver that may fail or fails.
InitSend ==
  /\ handler = TxConsumer
  /\ sender \in {NoTx, [NoTx EXCEPT !.SendToTopic = "error"]}
  /\ InitData
  /\ \E tx \in BOOLEAN : ServingAs(tx)
  /\ trip = NoTrip
  /\ conf = ValidConf

NextSend ==
  \/ \E n \in 1..(sent + 1), k \in RouteKeys, localTx \in {"none", "nil", "func"} :
       SendDirect(BizUID(n), k, localTx)
  \/ \E n \in 1..(sent + 1), k \in RouteKeys, localTx \in {"none", "nil", "func"} :
       SendNoTxOptions(BizUID(n), k, localTx)
  \/ SendStore
  \/ SendRecord
  \/ SendLocalTx
  \/ SendAbort
  \/ SendPublish
  \/ SendRemove
  \/ \E h \in {"handler", "txHandler"} : ReceiveMessage(h)
  \/ \E t \in TaskIds : handleMsgGate(t)
  \/ \E t \in TaskIds : handleMsgHandle(t)
  \/ \E t \in TaskIds : txFetch(t)
  \/ \E t \in TaskIds : txEnsure(t)
  \/ \E t \in TaskIds : txPublish(t)
  \/ \E t \in TaskIds : txRemoveDone(t)
  \/ \E t \in TaskIds : handleMsgRelease(t)
  \/ \E t \in TaskIds : handleMsgRequeue(t)
  \/ \E t \in TaskIds : Delivered(t)

SpecSend == InitSend /\ [][NextSend]_vars

(* ------------- a message through encode, decode and Scan -------------- *)
\* MessageAutoId(P, k): MessageWithId(generateSeqId(), P, k), whose encode of
\* the payload throws if json.Marshal fails.
MessageAutoId(n) ==
  /\ trip.pc = "new"
  /\ trip' = IF MarshalFails(trip.P) THEN [trip EXCEPT !.pc = "thrown"]
             ELSE [trip EXCEPT !.pc = "made",
                               !.m = MessageWithId(BizUID(n), PayloadOf(trip.P), trip.k)]
  /\ UNCHANGED <<errs, txh, conf, handler, sender, queues, tasks, idem, dls, calls, sent, faults, txvars,
                 lifevars>>

\* encode(m)
encodeMessage ==
  /\ trip.pc = "made"
  /\ trip' = [trip EXCEPT !.pc = "encoded", !.wire = encode(trip.m)]
  /\ UNCHANGED <<errs, txh, conf, handler, sender, queues, tasks, idem, dls, calls, sent, faults, txvars,
                 lifevars>>

\* Bytes of another producer: a JSON object with some of the four tags.
foreignMessage(tags) ==
  /\ trip.pc = "new"
  /\ ~MarshalFails(trip.P)
  /\ LET full == [b |-> BizUID(1), p |-> PayloadOf(trip.P), r |-> 1, k |-> "rk"]
     IN  trip' = [trip EXCEPT !.pc = "foreign", !.wire = [f \in tags |-> full[f]]]
  /\ UNCHANGED <<errs, txh, conf, handler, sender, queues, tasks, idem, dls, calls, sent, faults, txvars,
                 lifevars>>

\* decode(bts, m2) with m2 := new(Message)
decodeMessage ==
  /\ trip.pc \in {"encoded", "foreign"}
  /\ trip' = [trip EXCEPT !.pc = IF @ = "encoded" THEN "decoded" ELSE "foreignDecoded",
                          !.m2 = decode(trip.wire)]
  /\ UNCHANGED <<errs, txh, conf, handler, sender, queues, tasks, idem, dls, calls, sent, faults, txvars,
                 lifevars>>

\* m2.Scan(&dest) with dest a zero value of P's type
ScanMessage ==
  /\ trip.pc = "decoded"
  /\ trip' = [trip EXCEPT !.pc = "scanned", !.dest = ScanInto(trip.m2, Shape(trip.P))]
  /\ UNCHANGED <<errs, txh, conf, handler, sender, queues, tasks, idem, dls, calls, sent, faults, txvars,
                 lifevars>>

\* One payload and one route key, of any kind.
InitMessage ==
  /\ handler = TxConsumer
  /\ sender = NoTx
  /\ InitData
  /\ Serving
  /\ \E P \in GoValues, k \in Keys : trip = [NoTrip EXCEPT !.pc = "new", !.P = P, !.k = k]
  /\ conf = ValidConf

NextMessage ==
  \/ \E n \in 1..MaxSends : MessageAutoId(n)
  \/ encodeMessage
  \/ \E tags \in SUBSET Fields : foreignMessage(tags)
  \/ decodeMessage
  \/ ScanMessage

SpecMessage == InitMessage /\ [][NextMessage]_vars

(* -------- two Handlers on two queues sharing one Idempotent ----------- *)
\* The ids of the messages: one of MessageAutoId and one the application chose.
KeyUIDs == {BizUID(1), DottedUID}

\* Both Handlers have the in-memory Idempotent and the default EnsureFunc.
KeyConsumers ==
  [Queue : {ConsumerQueue}, Idempotent : {"internal"}, DLStorage : {"internal"},
   EnsureFunc : {"deny"}, HandleFunc : {"ok", "any"}, RetryDelay : {"none"}]

InitKeys ==
  /\ handler \in KeyConsumers
  /\ sender = NoTx
  /\ InitData
  /\ ServingOf(FALSE, TRUE)
  /\ trip = NoTrip
  /\ conf = ValidConf

\* Every message is sent once, so each queue gets it once.
NextKeys ==
  \/ \E b \in KeyUIDs : calls.topic[b] = 0 /\ SendDirect(b, "", "none")
  \/ \E h \in {"handler", "other"} : ReceiveMessage(h)
  \/ \E t \in TaskIds : handleMsgGate(t)
  \/ \E t \in TaskIds : handleMsgHandle(t)
  \/ \E t \in TaskIds : handleMsgRelease(t)
  \/ \E t \in TaskIds : handleMsgDeadLetter(t)
  \/ \E t \in TaskIds : Delivered(t)

SpecKeys == InitKeys /\ [][NextKeys]_vars

(* ------------------ the goroutine ranging over errChan ---------------- *)
\* No goroutine has ended the process with a panic nothing recovers.
Alive == ops["crash"] = 0

\* The driver sends an error on errChan while ReceiveMessage loops; the channel
\* has no buffer, so the send completes when the range receives it.
errChanSend(r) ==
  /\ runs[r].pc = "receive"
  /\ runs[r].errChan = "open"
  /\ runs[r].drain = "idle"
  /\ ops["errChan"] < MaxErrors
  /\ runs' = [runs EXCEPT ![r].drain = "CreateQueue"]
  /\ ops' = Op("errChan")
  /\ UNCHANGED <<errs, txh, conf, trip, handler, sender, queues, tasks, idem, dls, calls, sent, faults, txvars,
                 hfields, sfields, hprep, sprep, waits, cancelled>>

\* h.initDriver(), first half: Driver.CreateQueue declares the queue (a broker
\* keeps its content, the in-memory driver makes the queue anew); its error is
\* thrown, in a goroutine where nothing recovers: the process ends.
initDriverCreateQueue(r) ==
  /\ runs[r].drain = "CreateQueue"
  /\ \E err \in Errs, anew \in BOOLEAN :
       /\ faults' = Fault(err)
       /\ queues' = IF err \/ ~anew THEN queues ELSE [queues EXCEPT ![handler.Queue] = << >>]
       /\ runs' = [runs EXCEPT ![r].drain = IF err THEN "dead" ELSE "Subscribe"]
       /\ ops' = [ops EXCEPT !["initDriver"] = @ + 1,
                             !["CreateQueue"] = IF err THEN @ ELSE @ + 1,
                             !["crash"] = IF err THEN @ + 1 ELSE @]
  /\ UNCHANGED <<errs, txh, conf, trip, handler, sender, tasks, idem, dls, calls, sent, txvars,
                 hfields, sfields, hprep, sprep, waits, cancelled>>

\* h.initDriver(), second half: Driver.Subscribe of the configured topic; its
\* error is thrown as well.
initDriverSubscribe(r) ==
  /\ runs[r].drain = "Subscribe"
  /\ \E err \in Errs :
       /\ faults' = Fault(err)
       /\ runs' = [runs EXCEPT ![r].drain = IF err THEN "dead" ELSE "Errorf"]
       /\ ops' = [ops EXCEPT !["Subscribe"] = IF err THEN @ ELSE @ + 1,
                             !["crash"] = IF err THEN @ + 1 ELSE @]
  /\ UNCHANGED <<errs, txh, conf, trip, handler, sender, queues, tasks, idem, dls, calls, sent, txvars,
                 hfields, sfields, hprep, sprep, waits, cancelled>>

\* h.Logger.Errorf(...), then the range takes the next error or ends on a
\* closed channel.
drainErrorf(r) ==
  /\ runs[r].drain = "Errorf"
  /\ runs' = [runs EXCEPT ![r].drain = IF runs[r].errChan = "open" THEN "idle" ELSE "off"]
  /\ ops' = Op("Errorf")
  /\ UNCHANGED <<errs, txh, conf, trip, handler, sender, queues, tasks, idem, dls, calls, sent, faults, txvars,
                 hfields, sfields, hprep, sprep, waits, cancelled>>

(* --------- a serving Handler over a driver that reports errors -------- *)
DrainConsumers ==
  [Queue : {ConsumerQueue}, Idempotent : {"null"}, DLStorage : {"internal"},
   EnsureFunc : {"allow"}, HandleFunc : {"any"}, RetryDelay : {"none", "bounded"}]

InitDrain ==
  /\ handler \in DrainConsumers
  /\ sender = NoTx
  /\ InitRest

\* Every goroutine of the process runs only while the process is alive.
NextDrain ==
  \/ Alive /\ \E n \in 1..(sent + 1) : Send(BizUID(n))
  \/ Alive /\ ReceiveMessage("handler")
  \/ Alive /\ \E t \in TaskIds : handleMsgGate(t)
  \/ Alive /\ \E t \in TaskIds : handleMsgHandle(t)
  \/ Alive /\ \E t \in TaskIds : handleMsgRelease(t)
  \/ Alive /\ \E t \in TaskIds : handleMsgDeadLetter(t)
  \/ Alive /\ \E t \in TaskIds : handleMsgRequeue(t)
  \/ Alive /\ \E t \in TaskIds : Delivered(t)
  \/ Alive /\ \E r \in RunIds : errChanSend(r)
  \/ Alive /\ \E r \in RunIds : initDriverCreateQueue(r)
  \/ Alive /\ \E r \in RunIds : initDriverSubscribe(r)
  \/ Alive /\ \E r \in RunIds : drainErrorf(r)
  \/ Alive /\ Cancel("ctx1")
  \/ Alive /\ \E r \in RunIds : ReceiveReturn(r)
  \/ Alive /\ \E r \in RunIds : RunClose(r)

SpecDrain == InitDrain /\ [][NextDrain]_vars

(* ---------------- a Handler built by the simple facade --------------- *)
\* simple.Handler: RetryDelay is 1 - attempts and EnsureFunc allows when the
\* application gives no ensure; the stores are those StartUp was given; the
\* application's handler fails every message or some.
FacadeConsumers ==
  [Queue : {ConsumerQueue}, Idempotent : Idempotents, DLStorage : DLStorages,
   EnsureFunc : {"allow"}, HandleFunc : {"fail", "any"}, RetryDelay : {"once"}]

InitFacade ==
  /\ handler \in FacadeConsumers
  /\ sender = NoTx
  /\ InitRest

\* Every Send publishes a new message.
NextFacade ==
  \/ Send(BizUID(sent + 1))
  \/ ReceiveMessage("handler")
  \/ \E t \in TaskIds : handleMsgGate(t)
  \/ \E t \in TaskIds : handleMsgHandle(t)
  \/ \E t \in TaskIds : handleMsgRelease(t)
  \/ \E t \in TaskIds : handleMsgDeadLetter(t)
  \/ \E t \in TaskIds : handleMsgRequeue(t)
  \/ \E t \in TaskIds : Delivered(t)

SpecFacade == InitFacade /\ [][NextFacade]_vars

(* ------------- redelivery by the driver, and cancellation ------------- *)
\* A consumer over a dead-letter store that may fail, so that handleMsg
\* returns false for some deliveries.
RedeliverConsumers ==
  [Queue : {ConsumerQueue}, Idempotent : {"null"}, DLStorage : {"failing"},
   EnsureFunc : {"allow"}, HandleFunc : {"any"}, RetryDelay : {"none", "bounded"}]

InitRedeliver ==
  /\ handler \in RedeliverConsumers
  /\ sender = NoTx
  /\ InitRest

SpecRedeliver == InitRedeliver /\ [][NextDrain]_vars

(* ------------- replays of what a HandleFunc refused at first ---------- *)
\* A consumer whose HandleFunc refuses or panics the first time it sees a
\* message and accepts it afterwards; what it refuses is dead-lettered.
ReplayConsumers ==
  [Queue : {ConsumerQueue}, Idempotent : Idempotents, DLStorage : DLStorages,
   EnsureFunc : EnsureFuncs, HandleFunc : FirstCalls, RetryDelay : {"none"}]

InitReplay ==
  /\ handler \in ReplayConsumers
  /\ sender = NoTx
  /\ InitRest

NextReplay ==
  \/ \E n \in 1..(sent + 1) : Send(BizUID(n))
  \/ ReceiveMessage("handler")
  \/ \E t \in Invocations : handleMsgGate(t)
  \/ \E t \in Invocations : handleMsgHandle(t)
  \/ \E t \in Invocations : handleMsgRelease(t)
  \/ \E t \in Invocations : handleMsgDeadLetter(t)
  \/ \E t \in Invocations : handleMsgPanic(t)
  \/ \E t \in TaskIds : Delivered(t)
  \/ \E r \in RunIds : Tick(r)
  \/ \E r \in RunIds : handleRetryFetch(r)
  \/ \E r \in RunIds : handleRetryNext(r)
  \/ \E r \in RunIds : handleRetryReturn(r)
  \/ \E r \in RunIds : handleRetryEnd(r)

SpecReplay == InitReplay /\ [][NextReplay]_vars

(* ====================== properties of the consumer ==================== *)
Quiet == \A t \in TaskIds : tasks[t].pc = "idle"

\* The message as handleMsg received it (msg.Retried before the increment).
Received(t) == decode(tasks[t].data)

Returns(t) == tasks[t].pc \notin {"idle", "done"} /\ tasks'[t].pc = "done"

GivenBack(t) == tasks[t].pc = "done" /\ tasks'[t].pc = "idle"

\* C1: with the in-memory Idempotent store, EnsureFunc returning false and
\* HandleFunc returning true, N deliveries of one Message invoke HandleFunc
\* exactly once; each of the other N-1 deliveries consults EnsureFunc once and
\* is acknowledged without HandleFunc, whatever the interleaving of the tasks.
C1_IdempotentOnce ==
  (handler.Idempotent = "internal" /\ handler.EnsureFunc = "deny" /\ handler.HandleFunc = "ok")
  => \A b \in BizUIDs :
       /\ calls.handle[b] <= 1
       /\ calls.deliver[b] >= 1 => calls.ensure[b] = calls.deliver[b] - 1
       /\ \A t \in TaskIds : tasks[t].pc = "done" => tasks[t].done
       /\ Quiet => /\ calls.ack[b] = calls.deliver[b]
                   /\ calls.deliver[b] >= 1 => calls.handle[b] = 1

C1_Witness ==
  /\ handler.Idempotent = "internal" /\ handler.EnsureFunc = "deny" /\ handler.HandleFunc = "ok"
  /\ Quiet /\ queues[ConsumerQueue] = << >>
  /\ calls.deliver["u1"] = MaxSends /\ calls.handle["u1"] = 1
  /\ calls.ensure["u1"] = MaxSends - 1 /\ calls.ack["u1"] = MaxSends

C4_EveryFailureRepublishes ==
  [][\A t \in TaskIds :
       (tasks[t].pc = "requeue" /\ tasks'[t].pc = "done") =>
         queues' = SendToQueue(queues, handler.Queue,
                               encode([Received(t) EXCEPT !.r = @ + 1]), tasks[t].rdelay)
    ]_vars

\* C4 amended: msg.Retried is incremented exactly once per failed attempt; when
\* SendToQueue succeeds, exactly one message, equal to the received one but
\* for Retried = received + 1, is appended to the handler's own queue with
\* delay d and handleMsg returns true (nothing is put back); when SendToQueue
\* fails, nothing is re-published, handleMsg returns false and the driver puts
\* back the received bytes, Retried unchanged.
C4_RetriedPlusOne ==
  [][\A t \in TaskIds :
       /\ (tasks[t].pc = "release" /\ tasks'[t].pc # "release") =>
            tasks'[t].msg = [Received(t) EXCEPT !.r = @ + 1]
       /\ (tasks[t].pc = "requeue" /\ tasks'[t].pc = "done") =>
            /\ tasks[t].rdelay >= 0 /\ ~tasks[t].hres
            /\ IF tasks'[t].done
               THEN queues' = SendToQueue(queues, handler.Queue,
                                 encode([Received(t) EXCEPT !.r = @ + 1]), tasks[t].rdelay)
               ELSE queues' = queues
       /\ (GivenBack(t) /\ tasks[t].msg.r # Received(t).r /\ tasks[t].rdelay >= 0) =>
            IF tasks[t].done THEN queues' = queues
            ELSE queues' = SendToQueue(queues, handler.Queue, tasks[t].data, tasks[t].delay)
    ]_vars

C4_Witness ==
  \E t \in TaskIds :
    /\ tasks[t].pc = "handle" /\ tasks[t].msg.r = 1 /\ tasks[t].delay = 1
    /\ sent = 1 /\ calls.handle["u1"] = 1 /\ faults = 0

(* ====================== properties of the Sender ====================== *)
\* The Send calls so far: those that returned and the one in progress.
Frames == {returned[i] : i \in DOMAIN returned} \cup (IF send.pc = "idle" THEN {} ELSE {send})

Last(seq) == seq[Len(seq)]

\* A Send call returns in this step, with this result.
SendReturns(result) ==
  /\ Len(returned') = Len(returned) + 1
  /\ Last(returned').result = result

SendOrders ==
  LET full == <<"Store", "SendToQueue", "localTx", "SendToTopic", "Remove">>
  IN  {SubSeq(full, 1, n) : n \in 1..5} \cup {<<"Store", "SendToQueue", "localTx", "Remove">>}

\* C8: a transactional Send calls TxStorage.Store (of the encoded message),
\* Driver.SendToQueue (of a record whose payload is the stored id, to
\* "<topic>.tx-record", with delay Timeout), localTx, Driver.SendToTopic and
\* TxStorage.Remove in this order; localTx runs only after the half-message was
\* stored and the record enqueued; a failing Store returns an error and leaves
\* no record, no localTx and no publication.
C8_SendOrder ==
  /\ [](\A f \in Frames : f.ops \in SendOrders)
  /\ [][/\ (send.pc = "idle" /\ send'.pc = "record")
             => /\ TxHas(txs', send'.id) /\ ~TxHas(txs, send'.id)
                /\ txs'.dataMap[send'.id] = send'.data
                /\ decode(send'.data) = MessageWithId(send'.b, PayloadBytes, "")
        /\ (send.pc = "record" /\ send'.pc = "localTx")
             => /\ RecordQueue = Topic \o ".tx-record"
                /\ queues' = [queues EXCEPT ![RecordQueue] =
                                Append(@, [data |-> Last(queues'[RecordQueue]).data,
                                           delay |-> Timeout])]
                /\ Scan(decode(Last(queues'[RecordQueue]).data)) = send.id
                /\ TxHas(txs, send.id)
        /\ (Len(send'.ops) > Len(send.ops) /\ Last(send'.ops) = "localTx")
             => send.ops = <<"Store", "SendToQueue">>
        /\ SendReturns("errStore")
             => /\ Last(returned').ops = <<"Store">>
                /\ queues' = queues /\ txs' = txs /\ biz' = biz /\ calls' = calls
                /\ send'.pc = "idle"
       ]_vars

\* A Send went through all five calls, and its record was handled.
C8_Witness ==
  \E i \in DOMAIN returned :
    /\ returned[i].ops = <<"Store", "SendToQueue", "localTx", "SendToTopic", "Remove">>
    /\ returned[i].result = "nil"
    /\ calls.handle[TxId(1)] = 1

\* C9: when the SendToQueue of the record fails, Send returns an error without
\* running localTx or publishing, and TxStorage holds no entry for the id.
C9_RecordFailureRemoves ==
  \A f \in Frames :
    f.result = "errRecord"
    => /\ f.ops = <<"Store", "SendToQueue">>
       /\ f.b \notin biz
       /\ calls.topic[f.b] = 0
       /\ ~TxHas(txs, f.id)

\* What the code does instead: the half-message stays in TxStorage for ever,
\* and no record exists that would reconcile it.
C9_OrphanStays ==
  \A f \in Frames :
    f.result = "errRecord"
    => /\ f.ops = <<"Store", "SendToQueue">>
       /\ f.b \notin biz
       /\ calls.topic[f.b] = 0
       /\ TxHas(txs, f.id)

C9_Witness == \E f \in Frames : f.result = "errRecord" /\ Quiet /\ sent = MaxTxSends

\* C6: when localTx returns nil and Send's own SendToTopic succeeds, the topic
\* gets the message from Send once, and a second time only from a record whose
\* Fetch found the half-message before Send's Remove; the entry of the id
\* outlives the publication only until Send's next step, its Remove, which
\* is always possible, and TxStorage holds no entry for the id from then on.
C6_DirectPublishOnce ==
  /\ [](\A f \in Frames :
          (f.pc = "remove" \/ f.result = "nil")
          => /\ f.b \in biz
             /\ calls.publish[f.b] = 1
             /\ calls.republish[f.b] <= 1
             /\ calls.republish[f.b] = 1 => f.id \in early.fetch
             /\ f.pc = "remove" => ENABLED SendRemove
             /\ f.result = "nil" => ~TxHas(txs, f.id))
  /\ [][send.pc = "remove" /\ send'.pc # "remove"
          => /\ SendReturns("nil")
             /\ ~TxHas(txs', send.id)]_vars

\* The duplicate: the record fetched the half-message during the Send and
\* published it, Send published it too; the consumer handled both.
C6_Witness ==
  \E i \in DOMAIN returned :
    /\ returned[i].result = "nil"
    /\ calls.publish[returned[i].b] = 1
    /\ calls.republish[returned[i].b] = 1
    /\ calls.handle[returned[i].b] = 2
    /\ ~TxHas(txs, returned[i].id)
    /\ Quiet
    /\ \A q \in QueueNames : queues[q] = << >>

\* Nothing is left to do: the Sends returned, no message waits or is handled.
TxQuiet ==
  /\ Quiet
  /\ send.pc = "idle"
  /\ sent = SendLimit
  /\ \A q \in QueueNames : queues[q] = << >>

TxEnsureCalls == SumOver(calls.txensure, UIDs)

\* What every run of TestTransaction ends with: an empty TxStorage, nothing
\* published and the consumer's HandleFunc never invoked.
NothingPublished ==
  /\ DOMAIN txs.dataMap = {}
  /\ \A b \in UIDs : calls.publish[b] = 0 /\ calls.republish[b] = 0
  /\ \A b \in BizUIDs : calls.handle[b] = 0 /\ calls.deliver[b] = 0

Published(b) == calls.publish[b] + calls.republish[b] >= 1

\* C10 as stated (EnsureFunc reporting the business state): a Send whose
\* localTx returned nil and whose SendToTopic failed returns nil and leaves the half-message in TxStorage (unless the
\* record published it already), and the message is eventually published once
\* SendToTopic succeeds, whenever the record arrived.
C10_CommittedIsPublished ==
  /\ [][(SendReturns("nilUnpublished") /\ sender.EnsureFunc = "business")
          => \/ TxHas(txs', Last(returned').id)
             \/ Published(Last(returned').b)]_vars
  /\ \A n \in 1..MaxTxSends :
       (sender = NoTx /\ BizUID(n) \in biz) ~> Published(BizUID(n))

\* What the code guarantees instead of C10 (EnsureFunc reporting the business
\* state): such a Send returns nil without removing the half-message;
\* provided that the record's EnsureFunc call did not come before localTx
\* returned, the half-message is still stored or was published by the record,
\* and the message is eventually published (the driver recovering, RetryDelay
\* never negative). When that call did come before, EnsureFunc reported the
\* transaction as not done, the handler removed the half-message and
\* acknowledged the record: nothing is left to publish the message.
C10_PublishedUnlessEarly ==
  /\ [][(SendReturns("nilUnpublished") /\ sender.EnsureFunc = "business")
          => /\ Last(returned').b \in biz
             /\ Last(returned').ops = <<"Store", "SendToQueue", "localTx", "SendToTopic">>
             /\ Last(returned').id \notin early.ensure
                => \/ TxHas(txs', Last(returned').id)
                   \/ Published(Last(returned').b)
             /\ Last(returned').id \in early.ensure
                => /\ ~TxHas(txs', Last(returned').id)
                   /\ ~Published(Last(returned').b)]_vars
  /\ \A n \in 1..MaxTxSends :
       (sender = NoTx /\ \E f \in Frames : /\ f.b = BizUID(n)
                                            /\ f.b \in biz
                                            /\ f.id \notin early.ensure)
       ~> Published(BizUID(n))

\* The committed message that is lost: its record reached EnsureFunc while
\* localTx was running, Send's SendToTopic failed and Send returned nil;
\* nothing is left to do, no half-message is stored and nothing was published.
C10_Witness ==
  \E i \in DOMAIN returned :
    /\ returned[i].result = "nilUnpublished"
    /\ returned[i].b \in biz
    /\ returned[i].id \in early.ensure
    /\ sender = NoTx
    /\ TxQuiet
    /\ ~TxHas(txs, returned[i].id)
    /\ ~Published(returned[i].b)

(* ====================== properties of the lifecycle =================== *)
\* Prepare has completed: its initializer ran to its end.
HandlerPrepared == hfields.once = "done" /\ hfields.ready

\* What the driver and the stores hold, and the driver calls made so far.
DriverAndStores ==
  <<queues, idem, dls, txs, ops["CreateQueue"], ops["Subscribe"], ops["CreateTopic"],
    ops["ReceiveMessage"]>>

\* Run r goes through its ready check in this step.
Checks(r) == runs[r].pc = "check" /\ runs'[r].pc # "check"

\* A Send call is made in this step.
SendCalled == sent' = sent + 1

\* C11: a Run or RunCtx whose ready check is made on a Handler that has not
\* completed Prepare, and a Send made on a Sender that has not completed
\* Prepare, throw and perform no driver or storage operation.
C11_UnpreparedThrows ==
  [][ /\ \A r \in RunIds :
           Checks(r) /\ ~HandlerPrepared =>
             /\ runs'[r].pc = "thrown"
             /\ ops'["throw"] = ops["throw"] + 1
             /\ UNCHANGED DriverAndStores
      /\ SendCalled /\ ~sfields.ready =>
           /\ ops'["sendThrow"] = ops["sendThrow"] + 1
           /\ UNCHANGED DriverAndStores ]_vars

\* A Run and a Send have thrown, and a later Run has reached the receive loop.
C11_Witness ==
  /\ ops["throw"] > 0
  /\ ops["sendThrow"] > 0
  /\ \E r \in RunIds : runs[r].pc = "receive"

\* C12: however many Prepare calls are made, one after the other or at once,
\* the Handler declares its queue and its subscription at most once and makes
\* its quit channel once, and the Sender creates its topic and builds and
\* starts its tx-handler at most once.
C12_PrepareOnce ==
  /\ ops["CreateQueue"] <= 1
  /\ ops["Subscribe"] <= 1
  /\ ops["quit"] <= 1
  /\ ops["CreateTopic"] <= 1
  /\ ops["txHandler"] <= 1

\* The Handler's half of C12, which its sync.Once gives.
C12_HandlerOnce ==
  /\ ops["CreateQueue"] <= 1
  /\ ops["Subscribe"] <= 1
  /\ ops["quit"] <= 1

\* Every Prepare call of both components has returned, the Handler's first one
\* having completed its initializer.
C12_Witness ==
  /\ \A p \in PrepIds : hprep[p] = "returned" /\ sprep[p] = "returned"
  /\ ops["quit"] = 1

\* A Run or RunCtx call is made in this step.
Called(r) == runs[r].pc = "idle" /\ runs'[r].pc = "check"

\* Run r finds the running flag taken in this step.
Rejected(r) == runs[r].pc = "cas" /\ runs'[r].pc = "rejected"

\* The receive loops in progress.
Loops == {r \in RunIds : runs[r].pc = "receive"}

\* A rejected call starts no worker, does not call ReceiveMessage and posts nothing.
C13_RejectedStartsNothing ==
  [][\A r \in RunIds :
       runs[r].pc = "cas" /\ hfields.running = 1 /\ runs'[r] # runs[r] =>
         /\ Rejected(r)
         /\ \A q \in RunIds \ {r} : runs'[q] = runs[q]
         /\ UNCHANGED <<hfields, ops, waits, queues, tasks, dls, idem>>]_vars

\* C13: while a Run is active, a further Run or RunCtx call returns without
\* side effect: it starts no worker, does not call ReceiveMessage, does not
\* change the Handler's Context and posts nothing to quit; at most one receive
\* loop of the Handler is active at any time.
C13_SecondRunIsInert ==
  /\ [](Cardinality(Loops) <= 1)
  /\ C13_RejectedStartsNothing
  /\ [][\A r \in RunIds :
          Called(r) /\ hfields.running = 1 => hfields'.Context = hfields.Context]_vars

\* A call was rejected while the receive loop of another was in progress.
C13_Witness ==
  \E r, q \in RunIds : runs[r].pc = "rejected" /\ runs[q].pc = "receive"

\* The Run calls that returned after their post, and the Wait calls released.
Returned == {r \in RunIds : runs[r].pc = "returned"}
Released == {w \in WaitIds : waits[w] = "released"}

\* Run r completes its post in this step; Wait w is released in this step.
Posts(r) == runs[r].pc = "post" /\ runs'[r].pc = "returned"
Releases(w) == waits[w] = "blocked" /\ waits'[w] = "released"

\* C14: every post to quit is made by one Run whose receive loop has returned,
\* once, and releases exactly one Wait; a rejected Run never posts; as many
\* Wait calls are released as Runs have completed.
C14_OnePostOneWait ==
  /\ [](Cardinality(Released) = ops["post"] /\ Cardinality(Returned) = ops["post"])
  /\ [][ /\ ops'["post"] \in {ops["post"], ops["post"] + 1}
         /\ ops'["post"] = ops["post"] + 1 <=> \E r \in RunIds : Posts(r)
         /\ Cardinality({r \in RunIds : Posts(r)}) = Cardinality({w \in WaitIds : Releases(w)})
         /\ Cardinality({r \in RunIds : Posts(r)}) <= 1
         /\ \A r \in RunIds : runs'[r].pc = "returned" => runs[r].pc \in {"post", "returned"}
         /\ \A r \in RunIds : runs[r].pc = "post" => runs'[r].pc \in {"post", "returned"}
         /\ \A r \in RunIds : runs[r].pc \in {"rejected", "returned"} => runs'[r].pc = runs[r].pc
         /\ \A w \in WaitIds : waits[w] = "released" => waits'[w] = "released" ]_vars

\* One Run completed and released one of two waiting calls; another was rejected.
C14_Witness ==
  /\ ops["post"] = 1
  /\ \E w \in WaitIds : waits[w] = "blocked"
  /\ \E r \in RunIds : runs[r].pc = "rejected"

\* The receive loop of Run r is in progress and its context is cancelled.
Stopping(r) == runs[r].pc = "receive" /\ runs[r].ctx \in cancelled

\* After the loop: close(errChan), ticker.Stop(), running cleared, post, in that order.
StopOrder ==
  /\ [](\A r \in RunIds :
          /\ runs[r].pc \in {"call", "receive", "close"} =>
               runs[r].errChan = "open" /\ runs[r].ticker = "on" /\ hfields.running = 1
          /\ runs[r].pc = "stop" =>
               runs[r].errChan = "closed" /\ runs[r].ticker = "on" /\ hfields.running = 1
          /\ runs[r].pc = "clear" =>
               runs[r].errChan = "closed" /\ runs[r].ticker = "stopped" /\ hfields.running = 1
          /\ runs[r].pc \in {"post", "returned"} =>
               runs[r].errChan = "closed" /\ runs[r].ticker = "stopped")
  /\ [][\A r \in RunIds :
          /\ runs[r].pc = "receive" /\ runs'[r].pc # "receive" =>
               runs'[r].pc = "close" /\ runs[r].ctx \in cancelled
          /\ runs[r].pc = "close" /\ runs'[r].pc # "close" => runs'[r].pc = "stop"
          /\ runs[r].pc = "stop" /\ runs'[r].pc # "stop" => runs'[r].pc = "clear"
          /\ runs[r].pc = "clear" /\ runs'[r].pc # "clear" =>
               runs'[r].pc = "post" /\ hfields'.running = 0
          /\ runs[r].pc = "post" /\ runs'[r].pc # "post" => runs'[r].pc = "returned"]_vars

\* C15 as stated: after the cancellation the loop returns, errChan is closed,
\* the ticker stopped, running cleared and quit posted, in that order; Run
\* returns, and every Wait call made returns.
C15_CancelStops ==
  /\ StopOrder
  /\ \A r \in RunIds : Stopping(r) ~> runs[r].pc = "returned"
  /\ \A w \in WaitIds :
       (waits[w] = "blocked" /\ \E r \in RunIds : runs[r].pc = "post") ~> waits[w] = "released"

\* C15, amended: after the cancellation the loop returns and Run closes errChan,
\* stops the ticker, clears running and reaches its post, in that order, with no
\* message and no other call needed; there it stays until a Wait call takes the
\* post: a Run returns only together with one released Wait, and of a Run in its
\* post and a Wait in progress at least one eventually returns.
C15_CancelStopsUpToPost ==
  /\ StopOrder
  /\ \A r \in RunIds : Stopping(r) ~> runs[r].pc \in {"post", "returned"}
  /\ [][\A r \in RunIds : Posts(r) => \E w \in WaitIds : Releases(w)]_vars
  /\ \A r \in RunIds, w \in WaitIds :
       (runs[r].pc = "post" /\ waits[w] = "blocked")
         ~> (runs[r].pc = "returned" \/ waits[w] = "released")

\* A cancelled Run has returned with the Wait that took its post.
C15_Witness ==
  \E r \in RunIds, w \in WaitIds :
    /\ runs[r].pc = "returned"
    /\ runs[r].ctx \in cancelled
    /\ waits[w] = "released"

\* The Handler's context is cancelled, its Run has returned and Wait has
\* returned; no other Run is in progress.
Stopped ==
  /\ \E r \in Returned : runs[r].ctx \in cancelled
  /\ Released # {}
  /\ \A r \in RunIds : runs[r].pc \in {"idle", "returned", "rejected", "thrown"}

\* C16: once the context is cancelled and Wait has returned, HandleFunc is not
\* invoked any more, be it for a message already taken from the queue.
C16_NoHandleAfterWait ==
  [][Stopped => calls'["handle"] = calls["handle"]]_vars

\* The Handler has stopped with a message taken from the queue and not yet handled.
C16_Witness ==
  /\ Stopped
  /\ \E t \in TaskIds : tasks[t].pc \in {"gate", "handle"}

(* ======================= properties of handleMsg ====================== *)
\* The body of handleMsg panics in this step.
Panics(t) == tasks[t].pc \notin {"panic", "idle"} /\ tasks'[t].pc = "panic"

\* The deferred handler of handleMsg runs in this step.
Recovers(t) == tasks[t].pc = "panic" /\ tasks'[t].pc # "panic"

\* C17: a panic inside handleMsg (decode failure, panic of EnsureFunc,
\* HandleFunc or RetryDelay) is contained: DLStorage.Store(queue, received
\* bytes) is attempted once, and handleMsg returns true iff it succeeded; on
\* false the driver redelivers the received bytes.
C17_PanicContained ==
  [][\A t \in TaskIds :
       /\ Recovers(t) =>
            /\ tasks'[t].pc = "done"
            /\ tasks'[t].done = (faults' = faults)
            /\ dls' = IF tasks'[t].done
                      THEN DLStore(handler.DLStorage, dls, handler.Queue, tasks[t].data)
                      ELSE dls
            /\ UNCHANGED <<queues, idem, calls>>
       /\ GivenBack(t) /\ ~tasks[t].done =>
            queues' = SendToQueue(queues, handler.Queue, tasks[t].data, tasks[t].delay)
       /\ GivenBack(t) /\ tasks[t].done => queues' = queues]_vars

\* Two panics were recovered: a decode failure whose bytes were stored, and a
\* panic of RetryDelay whose store failed.
C17_Witness ==
  /\ \E t \in TaskIds : tasks[t].pc = "done" /\ tasks[t].data = Garbage /\ tasks[t].done
  /\ Garbage \in {DLFetch(dls, handler.Queue)[i] : i \in DOMAIN DLFetch(dls, handler.Queue)}
  /\ \E t \in TaskIds : /\ tasks[t].pc = "done" /\ ~tasks[t].done
                         /\ tasks[t].hres = FALSE /\ tasks[t].msg.r = 1
  /\ handler.RetryDelay = "panic"
  /\ handler.HandleFunc = "any"

\* handleMsg passes its gate (Acquire and, if consulted, EnsureFunc) in this step.
Gates(t) == tasks[t].pc = "gate" /\ tasks'[t].pc # "gate" /\ IsEnvelope(tasks[t].data)

\* Acquire returned true and no error.
Granted(task) == task.araw /\ ~task.aerr

\* C18: HandleFunc is invoked iff Acquire returned true without error or
\* EnsureFunc returned true; EnsureFunc is consulted iff Acquire returned false
\* or an error; when both deny, handleMsg returns true without invoking
\* HandleFunc, releasing the key, touching DLStorage or sending to the driver.
C18_Gate ==
  [][ /\ \A t \in TaskIds :
           Gates(t) =>
             LET b == tasks'[t].msg.b
                 consulted == calls'["ensure"][b] = calls["ensure"][b] + 1
             IN  /\ consulted <=> ~Granted(tasks'[t])
                 /\ ~consulted => calls'["ensure"] = calls["ensure"]
                 /\ tasks'[t].ens => consulted
                 /\ tasks'[t].pc = "handle" <=> (Granted(tasks'[t]) \/ tasks'[t].ens)
                 /\ tasks'[t].pc = "handle" \/ tasks'[t].pc = "panic" \/
                      /\ tasks'[t].pc = "done"
                      /\ tasks'[t].done
                      /\ UNCHANGED <<idem, dls, queues>>
                 /\ UNCHANGED calls["handle"]
      /\ \A b \in BizUIDs :
           calls'["handle"][b] # calls["handle"][b] =>
             /\ calls'["handle"][b] = calls["handle"][b] + 1
             /\ \E t \in TaskIds : /\ tasks[t].pc = "handle" /\ tasks'[t].pc # "handle"
                                   /\ tasks[t].msg.b = b
      /\ \A t \in TaskIds :
           tasks[t].pc = "handle" /\ tasks'[t].pc # "handle" =>
             calls'["handle"][tasks[t].msg.b] = calls["handle"][tasks[t].msg.b] + 1
      /\ \A t \in TaskIds :
           GivenBack(t) /\ tasks[t].done => UNCHANGED <<idem, dls, queues>> ]_vars

\* Acquire answered true with an error and EnsureFunc then denied: handleMsg is
\* about to return true, HandleFunc not invoked.
C18_Witness ==
  \E t \in TaskIds :
    /\ tasks[t].pc = "done"
    /\ tasks[t].araw /\ tasks[t].aerr /\ ~tasks[t].ens
    /\ tasks[t].done
    /\ calls["handle"][tasks[t].msg.b] = 0
    /\ calls["ensure"][tasks[t].msg.b] = 1

\* A Handler left without an Idempotent store, as Prepare completes it.
NoIdempotent == handler.Idempotent = "null"

\* C19: a Handler prepared without an Idempotent store gets one whose Acquire
\* always returns false, so EnsureFunc alone decides: HandleFunc is invoked iff
\* EnsureFunc returned true, and with the default EnsureFunc every delivery is
\* acknowledged and HandleFunc is never invoked.
C19_EnsureIsSoleGate ==
  /\ [](\A cfg \in GateConfigs :
          /\ cfg.Idempotent = "nil" => WithDefaults(cfg).Idempotent = "null"
          /\ cfg.EnsureFunc = "nil" => WithDefaults(cfg).EnsureFunc = "deny")
  /\ [](NoIdempotent => idem = {})
  /\ [](NoIdempotent /\ handler.EnsureFunc = "deny" =>
          \A b \in BizUIDs : calls["handle"][b] = 0 /\ calls["ack"][b] <= calls["deliver"][b])
  /\ [][NoIdempotent =>
          \A t \in TaskIds :
            /\ Gates(t) =>
                 /\ ~tasks'[t].araw /\ ~tasks'[t].aerr
                 /\ calls'["ensure"][tasks'[t].msg.b] = calls["ensure"][tasks'[t].msg.b] + 1
                 /\ tasks'[t].pc = "handle" <=> tasks'[t].ens
                 /\ handler.EnsureFunc = "deny" => tasks'[t].pc = "done" /\ tasks'[t].done
            /\ GivenBack(t) /\ handler.EnsureFunc = "deny" /\ IsEnvelope(tasks[t].data) =>
                 /\ queues' = queues
                 /\ calls'["ack"][tasks[t].msg.b] = calls["ack"][tasks[t].msg.b] + 1]_vars

\* Without a store and with the default EnsureFunc, a message was delivered and
\* acknowledged twice, never handled.
C19_Witness ==
  /\ NoIdempotent
  /\ handler.EnsureFunc = "deny"
  /\ calls["deliver"][BizUID(1)] = 2
  /\ calls["ack"][BizUID(1)] = 2
  /\ calls["handle"][BizUID(1)] = 0

(* ==================== properties of the dead letters ================== *)
\* No handleMsg call is in progress, be it of a delivery or of handleRetry.
AtRest == \A t \in Invocations : tasks[t].pc = "idle"

\* The messages in the broker queue, in DLStorage, and those HandleFunc accepted.
InQueue == Len(queues[handler.Queue])
InDLStorage == Cardinality(DOMAIN Rows)
Handled == SumOver(calls["handled"], BizUIDs)

\* C20: every message sent is in exactly one place, the broker queue, a
\* handleMsg invocation, DLStorage, or acknowledged; checked where no
\* invocation is in progress: the messages in the queue, in DLStorage and
\* handled are as many as were sent.
C20_OnePlace == AtRest => InQueue + InDLStorage + Handled = sent

\* Two messages were dead-lettered and one of them was replayed by handleRetry.
C20_Witness ==
  /\ AtRest
  /\ sent = 2
  /\ ops["replay"] > 0
  /\ InDLStorage = 2

(* ==================== properties of the error drain =================== *)
\* The goroutine ranging over errChan is between two errors, or has ended.
Drained == \A r \in RunIds : runs[r].drain \in {"idle", "off"}

\* C21: every error sent on errChan during Run has had one initDriver call and
\* then one log entry once the goroutine is back at the channel, and no error
\* during Run, one raised by that initDriver included, ends the process.
C21_ErrorsHealed ==
  /\ Alive
  /\ Drained => /\ ops["initDriver"] = ops["errChan"]
                /\ ops["Errorf"] = ops["errChan"]

\* Two errors were sent, each was followed by initDriver and a log entry, and
\* the receive loop goes on.
C21_Witness ==
  /\ Alive
  /\ Drained
  /\ ops["errChan"] = MaxErrors
  /\ ops["initDriver"] = MaxErrors
  /\ ops["Errorf"] = MaxErrors
  /\ \E r \in RunIds : runs[r].pc = "receive"

(* ================== properties of Send without localTx ================ *)
\* The message of a Send frame.
MessageOf(f) == MessageWithId(f.b, PayloadBytes, f.k)

\* A Send call is made and returns in this step.
Sends == Len(returned') = Len(returned) + 1 /\ send' = send /\ send.pc = "idle"

\* C22: Send with no localTx, or a nil one, calls Driver.SendToTopic exactly
\* once, with the encoded message and its RouteKey, leaves TxStorage and the
\* record queue alone even with TxOptions, and returns nil iff SendToTopic
\* succeeded; Send with a localTx on a Sender without TxOptions returns an
\* error and neither runs localTx nor publishes.
C22_DirectSend ==
  [][Sends =>
       LET f == Last(returned')
           ok == calls'.publish[f.b] = calls.publish[f.b] + 1
       IN  /\ f.localTx \in {"none", "nil"}
             => /\ f.ops = <<"SendToTopic">>
                /\ calls'.topic[f.b] = calls.topic[f.b] + 1
                /\ f.data = encode(MessageOf(f))
                /\ queues' = IF ok THEN SendToTopic(queues, encode(MessageOf(f)), f.k)
                             ELSE queues
                /\ txs' = txs
                /\ queues'[RecordQueue] = queues[RecordQueue]
                /\ biz' = biz
                /\ f.result = "nil" <=> ok
                /\ f.result \in {"nil", "errTopic"}
           /\ (f.localTx = "func" /\ ~sfields.tx)
             => /\ f.result = "errNoTx"
                /\ f.ops = << >>
                /\ UNCHANGED <<queues, txs, biz, calls>>
    ]_vars

\* A Sender with TxOptions, while a half-message is in its TxStorage and the
\* record of it in the record queue, sent a message with a nil localTx, which
\* the consumer handled.
C22_Witness ==
  /\ sfields.tx
  /\ DOMAIN txs.dataMap # {}
  /\ queues[RecordQueue] # << >>
  /\ \E i \in DOMAIN returned :
       /\ returned[i].localTx = "nil" /\ returned[i].result = "nil"
       /\ calls.handle[returned[i].b] > 0

(* ===================== properties of the envelope ===================== *)
\* A message came back from the bytes MessageAutoId's message was encoded to.
Decoded == trip.pc \in {"decoded", "scanned"}

\* The tags the decoded bytes did not have decoded to the zero value.
AbsentAreZero ==
  trip.pc \in {"decoded", "scanned", "foreignDecoded"}
  => \A f \in Fields \ DOMAIN trip.wire : trip.m2[f] = ZeroOf(f)

PastAcquire(t) == tasks[t].pc \notin {"idle", "gate"}

\* C24: with the key queue + "." + BizUID, Handlers on different queues that
\* share an Idempotent store do not take each other's keys: where every message
\* is delivered once per queue, no Acquire is refused, and each queue's Handler
\* invokes HandleFunc for the message.
C24_NoCrossQueueRefusal ==
  \A t \in TaskIds : PastAcquire(t) => tasks[t].araw /\ tasks[t].allow

\* The message with the id of MessageAutoId went through both queues and
\* HandleFunc was invoked for it by each Handler.
C24_Witness ==
  /\ \A t \in TaskIds : tasks[t].pc = "idle"
  /\ \A q \in QueueNames : queues[q] = << >>
  /\ calls.deliver[BizUID(1)] = 2
  /\ calls.handle[BizUID(1)] = 2
  /\ {ConsumerQueue \o "." \o BizUID(1), OtherQueue \o "." \o BizUID(1)} \subseteq idem

(* ================ properties of the dead-letter replays =============== *)
\* The handleMsg call that handleRetry made for a row returns to it.
ReplayReturns(r) == runs[r].worker.pc = "call" /\ runs'[r].worker.pc = "range"

\* The id of the message in the row that is replayed.
Replayed(r) == decode(tasks[RetryTask(r)].data).b

\* C25: the row that handleRetry replayed leaves DLStorage iff its handleMsg
\* returned true, and a dead-lettered message whose HandleFunc now succeeds
\* is handled and removed by that tick: when the replay of a message that
\* HandleFunc accepts from its second call on returns, no delivery being in
\* progress and Remove not failing, HandleFunc has accepted the message and
\* the row is gone.
C25_ReplayHandlesAndRemoves ==
  [][\A r \in RunIds :
       (ReplayReturns(r) /\ Quiet /\ faults' = faults) =>
         /\ tasks[RetryTask(r)].done <=> dls' # dls
         /\ /\ tasks[RetryTask(r)].done
            /\ calls["handled"][Replayed(r)] >= 1
    ]_vars

\* A message that HandleFunc refused at first was dead-lettered, then handled
\* by a replay, and its row was removed.
C25_Witness ==
  /\ handler.HandleFunc = "failfirst" /\ handler.Idempotent = "internal"
  /\ AtRest
  /\ sent = 1
  /\ ops["replay"] = 1
  /\ calls["handled"][BizUID(1)] = 1
  /\ InDLStorage = 0
  /\ dls.index # << >>

\* The handleMsg call of handleRetry failed again and stored the message back:
\* HandleFunc returned false, RetryDelay was negative and Store succeeded.
FailedAgain(r) ==
  /\ tasks[RetryTask(r)].msg.r = decode(tasks[RetryTask(r)].data).r + 1
  /\ tasks[RetryTask(r)].rdelay < 0
  /\ tasks[RetryTask(r)].done

\* The rows of the store that hold the message of id b.
RowsOf(store, b) ==
  {pid \in DOMAIN DLFetch(store, handler.Queue) :
     decode(DLFetch(store, handler.Queue)[pid]).b = b}

\* C26: a reinjection that fails again with a negative RetryDelay stores the
\* message back with a greater Retried: when handleRetry has removed the row
\* it replayed, the store still holds the message, in one row, and that row
\* carries a Retried greater than the replayed row did.
C26_ReplayFixpoint ==
  [][\A r \in RunIds :
       (ReplayReturns(r) /\ FailedAgain(r) /\ Quiet /\ sent = 1 /\ faults' = faults) =>
         /\ Cardinality(RowsOf(dls', Replayed(r))) = 1
         /\ \A pid \in RowsOf(dls', Replayed(r)) :
              decode(DLFetch(dls', handler.Queue)[pid]).r > decode(tasks[RetryTask(r)].data).r
    ]_vars

\* The only message sent was dead-lettered and a replay of it failed again:
\* the store holds it in one row.
C26_Witness ==
  /\ AtRest
  /\ sent = 1
  /\ queues[handler.Queue] = << >>
  /\ ops["replay"] = 1
  /\ calls["handle"][BizUID(1)] >= 2
  /\ calls["handled"][BizUID(1)] = 0
  /\ Cardinality(RowsOf(dls, BizUID(1))) = 1

(* ================= properties of an incomplete component ============== *)
\* The Handler lacks Queue, Driver or HandleFunc, or its driver refuses
\* CreateQueue or Subscribe.
HandlerDefect ==
  HandlerIncomplete \/ conf.failing \cap {"CreateQueue", "Subscribe"} # {}

\* The Sender has no Driver, its driver refuses CreateTopic, or its TxOptions
\* have no positive Timeout, no EnsureFunc or no TxStorage.
SenderDefect ==
  conf.sDriver = "nil" \/ "CreateTopic" \in conf.failing \/ TxOptionsIncomplete

\* No Handler.Prepare call got past the checks and initDriver, and no Run
\* call got past the ready check.
HandlerUnprepared ==
  /\ ~hfields.ready
  /\ \A p \in PrepIds : hprep[p] \notin {"ready", "quit"}
  /\ \A r \in RunIds : runs[r].pc \in {"idle", "check", "thrown"}

\* No Sender.Prepare call returned, and every Send was rejected by the throw.
SenderUnprepared ==
  /\ ~sfields.ready
  /\ \A p \in PrepIds : sprep[p] \notin {"ready", "returned"}
  /\ ops["sendThrow"] = sent

\* C27: Prepare throws and leaves the component unprepared, so that Run and
\* Send stay rejected, when a Handler lacks Queue, Driver or HandleFunc or its
\* CreateQueue or Subscribe fails, and when a Sender has an empty Topic or no
\* Driver, its CreateTopic fails, or its TxOptions have Timeout <= 0 or lack
\* EnsureFunc or TxStorage.
C27_DefectStaysUnprepared ==
  /\ HandlerDefect => HandlerUnprepared
  /\ (SenderDefect \/ conf.Topic = "") => SenderUnprepared

\* A Sender whose TxOptions lack TxStorage: Prepare created the topic and
\* threw, and a Send after it was rejected.
C27_Witness ==
  /\ conf.TxStorage = "nil"
  /\ sprep[1] = "panicked"
  /\ ops["CreateTopic"] = 1
  /\ ops["txHandler"] = 0
  /\ ops["sendThrow"] >= 1
  /\ ~sfields.ready

(* ====================== properties of Sender.Wait ===================== *)
\* A Sender.Wait call is made.
WaitCalled(w) == txh.waits[w] = IdleWait /\ txh'.waits[w] # IdleWait

\* A Wait call returns at once iff s.txHandler is nil at the call.
ReturnsAtOnce ==
  [][\A w \in WaitIds :
       WaitCalled(w) => (txh'.waits[w].pc = "returned" <=> txh.cur = 0)]_vars

\* A Wait call that blocked has returned only after TxOptions.Context was
\* cancelled and the Run of the tx-handler it waits on made its post, which
\* is after its receive loop ended.
ReturnsAfterLoop ==
  \A w \in WaitIds :
    txh.waits[w].pc = "released" =>
      TxContext \in cancelled /\ txh.h[txh.waits[w].on].pc = "returned"

\* C28 as stated: Wait returns at once without a tx-handler, otherwise only
\* after the receive loop of the tx-handler ended following the cancellation,
\* and every blocked Wait call eventually returns once the context is cancelled.
C28_WaitReturns ==
  /\ ReturnsAtOnce
  /\ []ReturnsAfterLoop
  /\ \A w \in WaitIds :
       (txh.waits[w].pc = "blocked" /\ TxContext \in cancelled)
         ~> (txh.waits[w].pc = "released")

\* C28 amended: Wait returns at once without a tx-handler, otherwise only
\* after the receive loop of the tx-handler ended following the cancellation,
\* and once the context is cancelled one of the Wait calls blocked on a
\* tx-handler eventually returns.
C28_OneWaitReturns ==
  /\ ReturnsAtOnce
  /\ []ReturnsAfterLoop
  /\ \A p \in PrepIds :
       (TxContext \in cancelled /\ \E w \in WaitIds :
                                      txh.waits[w].pc = "blocked" /\ txh.waits[w].on = p)
         ~> (\E w \in WaitIds : txh.waits[w].pc = "released" /\ txh.waits[w].on = p)

\* Two Wait calls blocked on the tx-handler; after the cancellation its Run
\* made its post, one call returned and the other is still blocked.
C28_Witness ==
  /\ TxContext \in cancelled
  /\ \E p \in PrepIds :
       /\ txh.h[p].pc = "returned"
       /\ \E w, v \in WaitIds :
            /\ txh.waits[w] = [pc |-> "released", on |-> p]
            /\ txh.waits[v] = [pc |-> "blocked", on |-> p]

(* ================== properties of the idempotency key ================= *)
\* The invocations that acquired this key and have not ended: HandleFunc, the
\* release or the barrier is still to come.
Holders(key) ==
  {t \in Invocations : /\ tasks[t].key = key
                       /\ tasks[t].araw /\ ~tasks[t].aerr
                       /\ tasks[t].pc \in {"handle", "release", "panic"}}

\* C29: an invocation that acquired the key and ends without HandleFunc
\* having returned true has released it: a key is held only while an
\* invocation that acquired it is in progress, or for a message that
\* HandleFunc has accepted, so that no message is refused as already
\* processed without having been handled.
C29_KeyHeldOnlyIfHandled ==
  \A b \in BizUIDs :
    (handler.Queue \o "." \o b) \in idem =>
      \/ Holders(handler.Queue \o "." \o b) # {}
      \/ calls["handled"][b] >= 1

\* HandleFunc returned false for a message whose key was acquired: the
\* invocation ended, the message is dead-lettered and the key is free.
C29_Witness ==
  /\ handler.Idempotent = "internal" /\ handler.HandleFunc = "failfirst"
  /\ AtRest
  /\ calls["handle"][BizUID(1)] = 1
  /\ calls["handled"][BizUID(1)] = 0
  /\ InDLStorage = 1
  /\ idem = {}

(* ================== properties of the half-messages =================== *)
\* The id a reconciliation record names.
RecordId(bts) == Scan(decode(bts))

\* A reconciliation record for the id is pending: Send has not returned yet,
\* or the record is in the record queue (delayed or not), or the tx-handler
\* is handling it and has not returned true for it.
Pending(id) ==
  \/ send.pc # "idle" /\ send.id = id
  \/ \E i \in 1..Len(queues[RecordQueue]) : RecordId(queues[RecordQueue][i].data) = id
  \/ \E t \in TaskIds :
       /\ tasks[t].h = "txHandler"
       /\ tasks[t].pc # "idle"
       /\ ~(tasks[t].pc = "done" /\ tasks[t].done)
       /\ RecordId(tasks[t].data) = id

\* Send put a record for the id into the record queue.
RecordSent(id) == \A f \in Frames : f.id = id => f.result # "errRecord"

\* C30: as long as TxStorage holds an entry for an id whose record Send has
\* queued, a reconciliation record for that id is pending, whatever the
\* RetryDelay of TxOptions: the tx-handler never discards the record of a
\* half-message that is still stored.
C30_StoredHasRecord ==
  \A id \in DOMAIN txs.dataMap : RecordSent(id) => Pending(id)

\* The record of a stored half-message was re-published by the tx-handler
\* after a failed publish, with Retried = 1, and waits in the record queue.
C30_Witness ==
  /\ Quiet /\ send.pc = "idle"
  /\ \E id \in DOMAIN txs.dataMap :
       \E i \in 1..Len(queues[RecordQueue]) :
         /\ RecordId(queues[RecordQueue][i].data) = id
         /\ decode(queues[RecordQueue][i].data).r = 1

(* ==================== the reconciliation HandleFunc ==================== *)
\* The HandleFunc of the tx-handler returns in this step: true lets handleMsg
\* finish, false takes it to the failure path.
TxReturns(t, res) ==
  /\ tasks[t].pc \in {"handle", "txensure", "txpublish", "txremove"}
  /\ tasks'[t].pc = IF res THEN "done" ELSE "release"
  /\ tasks'[t].hres = res

\* The Send call that stored the half-message id.
Origin(id) == CHOOSE f \in Frames : f.id = id

TopicCalls == [b \in UIDs |-> calls["topic"][b]]

\* C31: the HandleFunc of the reconciliation handler, for a record with id i:
\* returns false when TxStorage.Fetch(i) returns an error; returns true and
\* publishes nothing when no data is stored under i; otherwise it calls
\* TxOptions.EnsureFunc with the decoded original message; on true it publishes
\* the stored bytes to the topic with the original route key, and returns true
\* after Remove(i) when the publish succeeded, false with the entry in place
\* when it failed; on false it removes i, publishes nothing and returns true.
C31_Reconciliation ==
  [][\A t \in TaskIds :
       (tasks[t].h = "txHandler" /\ tasks'[t] # tasks[t]) =>
         LET id == Scan(tasks[t].msg)
             pc == tasks[t].pc
             pc2 == tasks'[t].pc
             silent == queues' = queues /\ TopicCalls' = TopicCalls
         IN  /\ (pc = "handle" /\ faults' # faults) =>
                   /\ TxReturns(t, FALSE)
                   /\ txs' = txs
                   /\ silent
                   /\ calls'.txensure = calls.txensure
             /\ (pc = "handle" /\ faults' = faults /\ ~TxHas(txs, id)) =>
                   /\ TxReturns(t, TRUE)
                   /\ silent
                   /\ calls'.txensure = calls.txensure
             /\ (pc = "handle" /\ faults' = faults /\ TxHas(txs, id)) =>
                   /\ pc2 = "txensure"
                   /\ tasks'[t].txdata = txs.dataMap[id]
                   /\ silent
             /\ pc = "txensure" =>
                   /\ calls'.txensure[id] = calls.txensure[id] + 1
                   /\ decode(tasks[t].txdata) = MessageOf(Origin(id))
                   /\ silent
                   /\ IF TxEnsureResult(sender.EnsureFunc, decode(tasks[t].txdata))
                      THEN pc2 = "txpublish" /\ txs' = txs
                      ELSE TxReturns(t, TRUE) /\ ~TxHas(txs', id)
             /\ pc = "txpublish" =>
                   \/ /\ pc2 = "txremove"
                      /\ queues' = SendToTopic(queues, Origin(id).data, Origin(id).k)
                      /\ TopicCalls'[Origin(id).b] = TopicCalls[Origin(id).b] + 1
                   \/ /\ TxReturns(t, FALSE)
                      /\ queues' = queues
                      /\ txs' = txs
             /\ pc = "txremove" =>
                   /\ TxReturns(t, TRUE)
                   /\ ~TxHas(txs', id)
                   /\ silent]_vars

\* A record that was retried after a failed Fetch and whose reconciliation then
\* published the half-message with its route key, removed it and returned true.
C31_Witness ==
  /\ conf.RouteKey = "rk"
  /\ faults = 1
  /\ "Fetch" \in conf.failing
  /\ \E t \in TaskIds :
       /\ tasks[t].h = "txHandler"
       /\ tasks[t].pc = "done"
       /\ tasks[t].hres
       /\ tasks[t].msg.r >= 1
       /\ tasks[t].txdata # NoBytes
       /\ calls["republish"][decode(tasks[t].txdata).b] >= 1

(* =================== the key on the failure path ====================== *)
\* Invocation t is on the failure path past the release: the store or the
\* re-publish is about to be tried, or was tried and handleMsg has returned.
Failing(t) ==
  \/ tasks[t].pc \in {"dl", "requeue"}
  \/ tasks[t].pc = "done" /\ tasks[t].msg.r = decode(tasks[t].data).r + 1

\* Another invocation took the key since and is in progress or ended.
TakenSince(t) ==
  \E u \in TaskIds \ {t} :
    tasks[u].key = tasks[t].key /\ tasks[u].araw /\ tasks[u].pc \notin {"idle", "gate"}

\* C32 as stated: once the failure path is past the release, while the store or
\* the re-publish is pending and after handleMsg returned, the key is free.
C32_KeyFreeForRetry == \A t \in TaskIds : Failing(t) => tasks[t].key \notin idem

\* C32, amended: on the failure path (HandleFunc returned false)
\* Idempotent.Release(key) is called before the dead-letter store or the
\* re-publish is tried: while the store or the re-publish is pending, and
\* after handleMsg returned (true, or false because the store or the
\* re-publish failed), the invocation holds no key, so the copy that is
\* re-published or redelivered finds the key free unless another delivery of
\* the same message has taken it since.
C32_ReleasedBeforeRetry ==
  \A t \in TaskIds :
    Failing(t) =>
      \/ tasks[t].key \notin idem
      \/ TakenSince(t)
      \/ calls["handled"][tasks[t].msg.b] >= 1

\* An invocation acquired the key, HandleFunc returned false, the re-publish
\* failed and handleMsg returned false: the key is free for the redelivery.
C32_Witness ==
  /\ handler.Idempotent = "internal"
  /\ \E t \in TaskIds :
       /\ tasks[t].pc = "done" /\ ~tasks[t].done
       /\ tasks[t].araw /\ tasks[t].allow
       /\ Failing(t)
       /\ tasks[t].rdelay >= 0
       /\ tasks[t].key \notin idem
       /\ \A u \in TaskIds \ {t} : tasks[u].pc = "idle"

(* ===================== Wait and the receive loop ====================== *)
\* The Run calls whose receive loop is active: past the CAS, ReceiveMessage
\* called or about to be, running not yet cleared.
Active == {r \in RunIds : runs[r].pc \in {"call", "receive", "close", "stop", "clear"}}

\* C33: whenever a Wait call on the Handler returns, the Handler has no active
\* receive loop: running is 0 and no ReceiveMessage call is in progress.
C33_WaitMeansStopped ==
  [][\A w \in WaitIds :
       Releases(w) => hfields'.running = 0 /\ Active' = {}]_vars

\* A Wait returned after the only Run ended: nothing is running.
C33_Witness ==
  /\ Released # {}
  /\ hfields.running = 0
  /\ Active = {}
  /\ Cardinality({r \in RunIds : runs[r].pc # "idle"}) = 1

(* ===================== the gate of the tx-handler ===================== *)
\* The invocations of the tx-handler that are about to call HandleFunc for the record id.
AtHandleFunc(id) ==
  {t \in TaskIds : tasks[t].h = "txHandler" /\ tasks[t].pc = "handle" /\ tasks[t].msg.b = id}

\* C34: every reconciliation record delivered to the tx-handler reaches the
\* reconciliation HandleFunc: Acquire of the absent idempotent store refuses,
\* EnsureFunc answers true, and so no delivery, the first or a retry, is
\* acknowledged at the gate as already processed.
C34_RecordsReachHandleFunc ==
  /\ \A id \in TxIds :
       calls["deliver"][id] = calls["handle"][id] + Cardinality(AtHandleFunc(id))
  /\ \A t \in TaskIds :
       (tasks[t].h = "txHandler" /\ tasks[t].pc \notin {"idle", "gate"}) =>
         ~tasks[t].allow /\ tasks[t].ens /\ (tasks[t].pc = "handle" \/ tasks[t].txid # "")

\* A record came back for a retry and its second delivery is past the gate, in
\* the reconciliation HandleFunc.
C34_Witness ==
  \E t \in TaskIds :
    /\ tasks[t].h = "txHandler"
    /\ tasks[t].pc = "txensure"
    /\ tasks[t].msg.r >= 1
    /\ calls["deliver"][tasks[t].msg.b] = 2
    /\ calls["handle"][tasks[t].msg.b] = 2

(* ==================== the goroutines a Run leaves ===================== *)
\* The goroutine ranging over errChan has ended, or is still in the
\* initDriver and Errorf of an error it took before the channel was closed.
DrainEnding(r) == runs[r].drain \in {"off", "CreateQueue", "Subscribe", "Errorf"}

\* The goroutine ranging over ticker.C has ended, or is in a handleRetry pass.
TickerEnding(r) == runs[r].worker.pc \in {"off", "range", "call"}

\* The ticker goroutine of Run r takes a tick and starts a handleRetry pass.
PassStarts(r) == runs[r].tick /\ ~runs'[r].tick

\* C35: when Run returns, the two goroutines it started (the range over errChan
\* and the range over ticker.C) end: none of them is left waiting, so a Handler
\* that is run and cancelled again and again does not gather goroutines; and no
\* handleRetry pass starts after ticker.Stop().
C35_WorkersEnd ==
  /\ [](\A r \in RunIds :
          runs[r].pc = "returned" => DrainEnding(r) /\ TickerEnding(r))
  /\ [][\A r \in RunIds : PassStarts(r) => runs[r].ticker = "on"]_vars

\* A Run returned and the goroutine that ranged over its errChan has ended.
C35_Witness ==
  \E r \in RunIds :
    /\ runs[r].pc = "returned"
    /\ runs[r].errChan = "closed"
    /\ runs[r].drain = "off"
    /\ runs[r].ticker = "stopped"

(* ================== redelivery by the in-memory driver ================ *)
\* The delay of the Handler's queue: CreateQueue(h.Queue, h.Delay), and no
\* Handler of the model sets Delay.
QueueDelay == 0

\* The goroutine of a delivery ends in this step, handler(msg.data) having returned.
HandlerReturned(t) == tasks[t].pc = "done" /\ tasks'[t].pc = "idle"

\* ReceiveMessage takes a message from the queue in this step.
Takes(t) == tasks[t].pc = "idle" /\ tasks'[t].pc = "gate"

\* C36: in ReceiveMessage of the in-memory driver, a message whose handler
\* returns false is put on the same queue again, with the same bytes and the
\* queue's default delay, and delivered again later; a message whose handler
\* returns true is not put back; once ctx is done, ReceiveMessage takes no
\* further message from the queue.
C36_Redelivery ==
  [][\A t \in TaskIds :
       /\ HandlerReturned(t) =>
            queues' = IF tasks[t].done THEN queues
                      ELSE SendToQueue(queues, handler.Queue, tasks[t].data, QueueDelay)
       /\ Takes(t) =>
            /\ tasks'[t].data = Head(queues[handler.Queue]).data
            /\ \E r \in RunIds : runs[r].pc = "receive" /\ runs[r].ctx \notin cancelled]_vars

\* handleMsg returned false for a re-published message (the dead-letter store
\* failed), the driver put its bytes back and delivered them again: the third
\* delivery has the Retried of the second.
C36_Witness ==
  \E t \in TaskIds :
    /\ tasks[t].pc = "handle"
    /\ tasks[t].msg.r = 1
    /\ calls["deliver"][tasks[t].msg.b] = 3
    /\ faults = 1
    /\ sent = 1

(* =================== CreateQueue on an existing queue ================= *)
\* The goroutine of errChan completes the CreateQueue of initDriver in this step.
Redeclares(r) == runs[r].drain = "CreateQueue" /\ runs'[r].drain # "CreateQueue"

\* C37: CreateQueue is idempotent in the in-memory driver: called again for
\* the queue of a running Handler, as initDriver does for an error on errChan,
\* it loses no message that was put on the queue before the call.
C37_CreateQueueKeeps ==
  [][\A r \in RunIds :
       Redeclares(r) => queues'[handler.Queue] = queues[handler.Queue]]_vars

\* The queue was declared again while the Handler runs without an error; the
\* receive loop goes on and the message sent to the topic is delivered.
C37_Witness ==
  /\ ops["CreateQueue"] = 2
  /\ ops["errChan"] = 1
  /\ sent = 1
  /\ faults = 0
  /\ calls["deliver"][BizUID(1)] = 1
  /\ \E r \in RunIds : runs[r].drain = "idle" /\ runs[r].pc = "receive"

(* ================== the retry policy of the facade ==================== *)
\* The copies of the message of id b that wait in the Handler's queue.
Waiting(b) ==
  {i \in 1..Len(queues[handler.Queue]) : decode(queues[handler.Queue][i].data).b = b}

\* The message of id b, which HandleFunc has not accepted, was or is being
\* handled as the facade's policy has it: Retried 0 at the first call of
\* HandleFunc, a re-publish with delay 0 and Retried 1, a second call, the
\* dead-letter store; two deliveries and two calls in all.
TwiceThenDead(b) ==
  /\ calls["handle"][b] <= 2
  /\ \A t \in TaskIds :
       (tasks[t].pc = "handle" /\ tasks[t].msg.b = b) =>
         tasks[t].msg.r = calls["handle"][b]
  /\ \A i \in Waiting(b) :
       decode(queues[handler.Queue][i].data).r >= 1 =>
         /\ decode(queues[handler.Queue][i].data).r = 1
         /\ queues[handler.Queue][i].delay = 0
         /\ calls["handle"][b] = 1
  /\ RowsOf(dls, b) # {} => calls["handle"][b] = 2
  /\ (Quiet /\ Waiting(b) = {} /\ calls["deliver"][b] >= 1) =>
       /\ calls["handle"][b] = 2
       /\ calls["deliver"][b] = 2
       /\ Cardinality(RowsOf(dls, b)) = 1

HasErrorAlways(err) == TRUE

\* 'if err == nil { return }'.
HasError(err) == err # NilError

\* handleError(err) of component c: nothing for a nil error, log.Printf when
\* ErrorFunc is nil, ErrorFunc(err) otherwise.
handleError(c, err) ==
  /\ Len(errs[c].hist) < MaxErrorCalls
  /\ errs' = [errs EXCEPT
       ![c].hist = Append(@, [err |-> err, ErrorFunc |-> errs[c].ErrorFunc]),
       ![c].logged = IF HasError(err) /\ errs[c].ErrorFunc = "nil"
                     THEN Append(@, err) ELSE @,
       ![c].got = IF HasError(err) /\ errs[c].ErrorFunc # "nil"
                  THEN Append(@, err) ELSE @]
  /\ UNCHANGED <<handler, sender, queues, tasks, idem, dls, txs, send, returned,
                 biz, early, calls, sent, faults, lifevars, trip, conf, txh>>

\* The application assigns the ErrorFunc field: a function or nil.
SetErrorFunc(c, f) ==
  /\ errs[c].ErrorFunc # f
  /\ errs' = [errs EXCEPT ![c].ErrorFunc = f]
  /\ UNCHANGED <<handler, sender, queues, tasks, idem, dls, txs, send, returned,
                 biz, early, calls, sent, faults, lifevars, trip, conf, txh>>

InitErrors ==
  /\ handler = TxConsumer
  /\ sender = NoTx
  /\ InitRest

NextErrors ==
  \/ \E c \in Components, err \in Errors : handleError(c, err)
  \/ \E c \in Components, f \in {"set", "nil"} : SetErrorFunc(c, f)

SpecErrors == InitErrors /\ [][NextErrors]_vars

\* The errors of the calls in hist that were made with a non-nil error while
\* ErrorFunc was f, in the order of the calls.
RECURSIVE ErrorsWith(_, _)
ErrorsWith(hist, f) ==
  IF hist = << >> THEN << >>
  ELSE LET rest == ErrorsWith(SubSeq(hist, 1, Len(hist) - 1), f)
           last == hist[Len(hist)]
       IN IF last.err # NilError /\ last.ErrorFunc = f
          THEN Append(rest, last.err) ELSE rest

\* C39: in the ErrorFunc variant of Handler and Sender, handleError(err) does
\* nothing when err is nil, calls ErrorFunc exactly once per non-nil error when
\* ErrorFunc is set, and only logs when ErrorFunc is nil; so after
\* handleError(nil), handleError(e) with ErrorFunc set and handleError(e) with
\* ErrorFunc unset, ErrorFunc has run exactly once.
C39_handleError ==
  \A c \in Components :
    /\ errs[c].got = ErrorsWith(errs[c].hist, "set")
    /\ errs[c].logged = ErrorsWith(errs[c].hist, "nil")
    /\ errs[c].hist = <<[err |-> NilError, ErrorFunc |-> "set"],
                        [err |-> "error", ErrorFunc |-> "set"],
                        [err |-> "log println error", ErrorFunc |-> "nil"]>>
         => Len(errs[c].got) = 1

\* Both components went through the three calls of the tests: ErrorFunc ran
\* once, for "error", and the last error was logged.
C39_Witness ==
  \A c \in Components :
    /\ errs[c].hist = <<[err |-> NilError, ErrorFunc |-> "set"],
                        [err |-> "error", ErrorFunc |-> "set"],
                        [err |-> "log println error", ErrorFunc |-> "nil"]>>
    /\ errs[c].got = <<"error">>
    /\ errs[c].logged = <<"log println error">>

====
